---- MODULE Spec2Model ----
(***************************************************************************)
(* A model of factory/base.py: definition-time resolution of a factory's   *)
(* options (FactoryMetaClass.__new__, FactoryOptions.contribute_to_class), *)
(* the shared sequence counters (FactoryOptions.next_sequence and          *)
(* reset_sequence, _Counter) and the generation entry points               *)
(* (BaseFactory.build / create / stub and their batch variants).           *)
(*                                                                         *)
(* Python values: None is the empty tuple and a present value v is <<v>>,  *)
(* so that "x is None" is x = None.  A class body and a "class Meta" are   *)
(* functions from attribute names to values; an attribute that is not set  *)
(* is not in the DOMAIN.                                                   *)
(***************************************************************************)
EXTENDS Integers, Sequences, FiniteSets, TLC

VARIABLES
    registry,   \* class name -> the class: its base, its own attributes, its _meta
                \* (and, as history, the body of its class statement)
    counters,   \* the _Counter objects, by the factory that created each
    result,     \* what the last call returned or raised
    trace,      \* history, per _Counter: what was drawn from it, and since when
    ncalls      \* history: the number of calls made

vars == <<registry, counters, result, trace, ncalls>>

(***************************************************************************)
(* Bounds.                                                                 *)
(***************************************************************************)
\* factories defined besides BaseFactory and Factory
MaxDefs == 3
\* calls of next_sequence, reset_sequence, build, create, stub, ...
MaxCalls == 3
\* largest size given to build_batch / create_batch / stub_batch
MaxBatch == 2

(***************************************************************************)
(* Python values.                                                          *)
(***************************************************************************)
None == <<>>
Some(v) == <<v>>

getattr(obj, name, default) == IF name \in DOMAIN obj THEN obj[name] ELSE default

\* A dict is the sequence of its <<key, value>> items in insertion order.
dict_keys(d) == {d[i][1] : i \in DOMAIN d}
dict_has(d, k) == k \in dict_keys(d)
dict_index(d, k) == CHOOSE i \in DOMAIN d : d[i][1] = k
dict_get(d, k) == d[dict_index(d, k)][2]
\* list(d): the keys in insertion order
dict_names(d) == [i \in DOMAIN d |-> d[i][1]]
\* d[k] = v: a key already there keeps its place
dict_set(d, k, v) ==
    IF dict_has(d, k) THEN [d EXCEPT ![dict_index(d, k)] = <<k, v>>]
    ELSE Append(d, <<k, v>>)
\* d.pop(k), for its effect on d
dict_without(d, k) == SelectSeq(d, LAMBDA item : item[1] # k)
\* d.update(e)
RECURSIVE dict_update(_, _)
dict_update(d, e) ==
    IF e = <<>> THEN d
    ELSE dict_update(dict_set(d, e[1][1], e[1][2]), Tail(e))

\* The target types of the tests (tests/djapp/models.py) and the class each
\* derives from: StandardSon is a subclass of StandardModel.
ModelBases ==
    [StandardModel |-> "object", StandardSon |-> "StandardModel",
     WithFile |-> "object", StubObject |-> "object"]

RECURSIVE issubclass(_, _)
issubclass(c, d) ==
    \/ c = d
    \/ c \in DOMAIN ModelBases /\ issubclass(ModelBases[c], d)

(***************************************************************************)
(* enums.py, errors.py                                                     *)
(***************************************************************************)
BUILD_STRATEGY == "build"
CREATE_STRATEGY == "create"
STUB_STRATEGY == "stub"
Strategies == {BUILD_STRATEGY, CREATE_STRATEGY, STUB_STRATEGY}
\* a strategy name that enums.py does not define
MISSPELT_STRATEGY == "buidl"

(***************************************************************************)
(* Options: OptionDefault, FactoryOptions._build_default_options,          *)
(* FactoryOptions._fill_from_meta.                                         *)
(***************************************************************************)
OptionDefault(name, value, inherit) ==
    [name |-> name, value |-> value, inherit |-> inherit]

\* the options, were abstract inherited as model and strategy are
_build_default_options_all_inherited ==
    << OptionDefault("model", None, TRUE),
       OptionDefault("abstract", FALSE, TRUE),
       OptionDefault("strategy", CREATE_STRATEGY, TRUE),
       OptionDefault("inline_args", <<>>, TRUE),
       OptionDefault("exclude", <<>>, TRUE),
       OptionDefault("rename", <<>>, TRUE),
       OptionDefault("introspector_class", None, TRUE),
       OptionDefault("default_auto_fields", FALSE, TRUE),
       OptionDefault("include_auto_fields", <<>>, FALSE),
       OptionDefault("exclude_auto_fields", <<>>, FALSE) >>

\* tuples are sequences, the rename dict is a sequence of <<old, new>> pairs
\* in insertion order
_build_default_options ==
    << OptionDefault("model", None, TRUE),
       OptionDefault("abstract", FALSE, FALSE),
       OptionDefault("strategy", CREATE_STRATEGY, TRUE),
       OptionDefault("inline_args", <<>>, TRUE),
       OptionDefault("exclude", <<>>, TRUE),
       OptionDefault("rename", <<>>, TRUE),
       OptionDefault("introspector_class", None, TRUE),
       OptionDefault("default_auto_fields", FALSE, TRUE),
       OptionDefault("include_auto_fields", <<>>, FALSE),
       OptionDefault("exclude_auto_fields", <<>>, FALSE) >>

OptionNames == {_build_default_options[i].name : i \in DOMAIN _build_default_options}

OptionNamed(name) ==
    CHOOSE o \in {_build_default_options[i] : i \in DOMAIN _build_default_options} :
        o.name = name

\* apply, were every option inheritable
apply_inheriting(option, meta, base_meta) ==
    LET value1 == IF base_meta # None
                  THEN getattr(base_meta[1], option.name, option.value)
                  ELSE option.value
    IN  IF meta # None THEN getattr(meta[1], option.name, value1) ELSE value1

\* OptionDefault.apply: meta is the class Meta (or None), base_meta the
\* FactoryOptions of the first base that has one (or None)
apply(option, meta, base_meta) ==
    LET value0 == option.value
        value1 == IF option.inherit /\ base_meta # None
                  THEN getattr(base_meta[1], option.name, value0)
                  ELSE value0
    IN  IF meta # None THEN getattr(meta[1], option.name, value1) ELSE value1

\* k.startswith('_'), over the names in use
startswith_underscore(k) ==
    k \in {"_private", "_setup_next_sequence", "_meta", "__module__", "__doc__"}

\* the unknown attributes, were the private ones counted
UnknownMetaAttrs_private(meta) ==
    IF meta = None THEN {} ELSE DOMAIN meta[1] \ OptionNames

\* the attributes of class Meta that are neither private nor an option
UnknownMetaAttrs(meta) ==
    IF meta = None THEN {}
    ELSE {k \in DOMAIN meta[1] : ~startswith_underscore(k)} \ OptionNames

\* every name in use, in the order of sorted()
SortedNames ==
    <<"A", "B", "C", "D", "_private", "abstract", "afile", "bar", "bogus", "extra",
      "foo", "modle", "son">>

\* sorted(names)
sorted(names) == SelectSeq(SortedNames, LAMBDA n : n \in names)

\* FactoryOptions._fill_from_meta: the option attributes it sets on self
_fill_from_meta(meta, base_meta) ==
    [n \in OptionNames |-> apply(OptionNamed(n), meta, base_meta)]

(***************************************************************************)
(* What a class body holds.  enums.get_builder_phase and the declaration   *)
(* classes are in enums.py and declarations.py.                            *)
(***************************************************************************)
\* a classmethod that returns n
classmethod(n) == [kind |-> "classmethod", returns |-> n]
\* a classmethod _adjust_kwargs(cls, **kwargs) that returns kwargs, after
\* kwargs[k] = v if `sets` is Some(<<k, v>>)
adjusting(sets) == [kind |-> "classmethod", sets |-> sets]
\* factory.Sequence(lambda n: n)
Sequence == [kind |-> "Sequence"]
\* factory.PostGeneration(function)
PostGeneration == [kind |-> "PostGeneration"]
\* a plain value v
Plain(v) == [kind |-> "value", value |-> v]
\* the declaration an introspector builds for the model field `field`
AutoDeclaration(field) == [kind |-> "auto", field |-> field]

\* The values of attributes: the int n is <<n>>, declarations.SKIP is a marker.
PyInt(n) == <<n>>
SKIP == <<"declarations", "SKIP">>

get_builder_phase(value) ==
    IF value.kind \in {"Sequence", "auto"} THEN Some("pre_declaration")
    ELSE IF value.kind \in {"PostGeneration"} THEN Some("post_declaration")
    ELSE None

\* FactoryOptions._is_declaration
_is_declaration(name, value) ==
    IF value.kind \in {"classmethod", "staticmethod"} THEN FALSE
    ELSE IF get_builder_phase(value) # None THEN TRUE
    ELSE ~startswith_underscore(name)

(***************************************************************************)
(* Introspectors.  BaseIntrospector leaves get_default_field_names and     *)
(* get_field_by_name to its subclasses; ModelIntrospector is such a        *)
(* subclass, which knows the fields of ModelFields and has a builder for   *)
(* each.  RogueIntrospector is a subclass of it whose build_declarations   *)
(* always returns a declaration for RogueField, asked for or not.          *)
(***************************************************************************)
RogueField == "foo"

ModelFields ==
    [StandardModel |-> <<"foo">>, StandardSon |-> <<"foo", "son">>,
     WithFile |-> <<"afile">>, StubObject |-> <<>>]

Range(seq) == {seq[i] : i \in DOMAIN seq}

\* FactoryOptions.contribute_to_class: the introspector class in use
introspector_for(introspector_class) ==
    IF introspector_class = None THEN "BaseIntrospector" ELSE introspector_class[1]

\* introspector.get_default_field_names(model): the names, or the error raised
get_default_field_names(introspector, model) ==
    IF introspector = "BaseIntrospector"
    THEN [error |-> "NotImplementedError", names |-> {}]
    ELSE [error |-> "", names |-> Range(ModelFields[model])]

\* the names of a set, in the order given by `order`
InOrder(order, names) == SelectSeq(order, LAMBDA n : n \in names)

\* the orders in which the set `names` can be iterated: python does not fix
\* the order of a set of strings (it changes with the hash seed and with the
\* history of the set), so every order is possible, at every iteration
IterationOrders(names) ==
    {order \in [1..Cardinality(names) -> names] : Range(order) = names}

\* BaseIntrospector.build_declarations(for_fields, skip_fields), when the
\* fields of the model that are in the set for_fields are met in the order
\* `order` (a name that is no field of the model gets no declaration): the
\* declarations built, in that order, or the error raised by
\* get_field_by_name
build_declarations(introspector, model, for_fields, skip_fields, order) ==
    LET todo == for_fields \ skip_fields
        known == InOrder(order, todo \cap Range(ModelFields[model]))
        built == [i \in DOMAIN known |-> <<known[i], AutoDeclaration(known[i])>>]
    IN  IF todo # {} /\ introspector = "BaseIntrospector"
        THEN [error |-> "NotImplementedError", declarations |-> <<>>]
        ELSE IF introspector = "RogueIntrospector"
        THEN [error |-> "",
              declarations |-> dict_set(built, RogueField, AutoDeclaration(RogueField))]
        ELSE [error |-> "", declarations |-> built]

(***************************************************************************)
(* FactoryOptions.__init__ and contribute_to_class.                        *)
(***************************************************************************)
FactoryOptions_init ==
    [factory |-> None, base_factory |-> None, base_declarations |-> <<>>,
     parameters |-> <<>>, pre_declarations |-> <<>>, post_declarations |-> <<>>,
     _counter |-> None, counter_reference |-> None]

\* FactoryOptions.get_model_class
get_model_class(self) == self.model

\* the test of _get_counter_reference, were it for a proper subclass
counter_issubclass_proper(model, base_model) ==
    model # base_model /\ issubclass(model, base_model)

\* issubclass(model, base_model) as _get_counter_reference asks it
counter_issubclass(model, base_model) == issubclass(model, base_model)

\* _get_counter_reference, were every factory its own reference
_get_counter_reference_self(reg, factory, model, base_factory) == Some(factory)

\* FactoryOptions._get_counter_reference, for the options of factory `factory`.
\* A counter reference is the name of the factory whose _meta it is.
_get_counter_reference(reg, factory, model, base_factory) ==
    IF /\ model # None
       /\ base_factory # None
       /\ reg[base_factory[1]]._meta.model # None
       /\ counter_issubclass(model[1], reg[base_factory[1]]._meta.model[1])
    THEN reg[base_factory[1]]._meta.counter_reference
    ELSE Some(factory)

\* self.abstract, were it left as the options resolve it
ForceAbstract_never(model, abstract) == abstract

\* self.abstract after "if self.model is None: self.abstract = True"
ForceAbstract(model, abstract) == IF model = None THEN TRUE ELSE abstract

\* cls.__mro__, a class and its ancestors (each class has one base)
RECURSIVE mro(_, _)
mro(reg, cls) ==
    IF reg[cls].base = None THEN <<cls>>
    ELSE <<cls>> \o mro(reg, reg[cls].base[1])

Reverse(seq) == [i \in DOMAIN seq |-> seq[Len(seq) + 1 - i]]

\* the base declarations of the ancestors, were the auto-derived ones of
\* them left to be derived anew
RECURSIVE inherited_declarations_explicit(_, _, _)
inherited_declarations_explicit(reg, parents, acc) ==
    IF parents = <<>> THEN acc
    ELSE inherited_declarations_explicit(reg, Tail(parents),
             dict_update(acc, SelectSeq(reg[parents[1]]._meta.base_declarations,
                                        LAMBDA item : item[2].kind # "auto")))

\* "for parent in reversed(self.factory.__mro__[1:])": the base declarations
\* of the ancestors, the furthest first
RECURSIVE inherited_declarations(_, _, _)
inherited_declarations(reg, parents, acc) ==
    IF parents = <<>> THEN acc
    ELSE inherited_declarations(reg, Tail(parents),
             dict_update(acc, reg[parents[1]]._meta.base_declarations))

\* the declarations of the class body, were those of the ancestors kept
RECURSIVE own_declarations_beneath(_, _)
own_declarations_beneath(body, acc) ==
    IF body = <<>> THEN acc
    ELSE own_declarations_beneath(Tail(body),
             IF _is_declaration(body[1][1], body[1][2]) /\ ~dict_has(acc, body[1][1])
             THEN dict_set(acc, body[1][1], body[1][2]) ELSE acc)

\* "for k, v in vars(self.factory).items()": the declarations of the class body
RECURSIVE own_declarations(_, _)
own_declarations(body, acc) ==
    IF body = <<>> THEN acc
    ELSE own_declarations(Tail(body),
             IF _is_declaration(body[1][1], body[1][2])
             THEN dict_set(acc, body[1][1], body[1][2]) ELSE acc)

\* declarations.Trait(**overrides), the creation_counter-th declaration made:
\* of the overrides, the names
Trait(creation_counter, overrides) ==
    [kind |-> "Trait", creation_counter |-> creation_counter, overrides |-> overrides]

\* declarations.SimpleParameter.wrap(value): a Parameter is left as it is
SimpleParameter_wrap(value) ==
    IF value.kind = "Trait" THEN value ELSE [kind |-> "SimpleParameter", value |-> value]

\* parameter.get_revdeps(parameters): of the names of `parameters`, in their
\* order, those that a Trait overrides; none for a SimpleParameter
get_revdeps(parameter, parameters) ==
    IF parameter.kind # "Trait" THEN <<>>
    ELSE SelectSeq([i \in DOMAIN parameters |-> parameters[i][1]],
                   LAMBDA n : n \in parameter.overrides)

\* the key by which sort_ordered_objects sorts an item.  base.py gives the
\* sort the parameter objects alone (getter=lambda item: item[1], lines 267
\* and 389) and utils is not among the sources; the key is taken to be the
\* creation counter of the object, so that declaration order decides.  What
\* follows from this choice alone is not a finding about base.py.
ordering_key(item) == getattr(item[2], "creation_counter", -1)

\* `item` put in its place in the sorted items, after those of the same key
insert_ordered(items, item) ==
    SelectSeq(items, LAMBDA x : ordering_key(x) <= ordering_key(item))
        \o <<item>>
        \o SelectSeq(items, LAMBDA x : ordering_key(x) > ordering_key(item))

\* utils.sort_ordered_objects(items, getter=lambda item: item[1]): the items
\* by creation counter, those of the same counter in the order given
RECURSIVE sort_ordered_objects(_)
sort_ordered_objects(items) ==
    IF items = <<>> THEN <<>>
    ELSE insert_ordered(sort_ordered_objects(SubSeq(items, 1, Len(items) - 1)),
                        items[Len(items)])

\* "self.parameters.update(parent._meta.parameters)", the furthest parent first
RECURSIVE inherited_parameters(_, _, _)
inherited_parameters(reg, parents, acc) ==
    IF parents = <<>> THEN acc
    ELSE inherited_parameters(reg, Tail(parents),
             dict_update(acc, reg[parents[1]]._meta.parameters))

\* "self.parameters[k] = declarations.SimpleParameter.wrap(v)" for the items
\* of class Params, in the order given
RECURSIVE wrapped_parameters(_, _)
wrapped_parameters(items, acc) ==
    IF items = <<>> THEN acc
    ELSE wrapped_parameters(Tail(items),
             IF startswith_underscore(items[1][1]) THEN acc
             ELSE dict_set(acc, items[1][1], SimpleParameter_wrap(items[1][2])))

\* the parameters of class Params (None if the body has none) added to acc
own_parameters(params, acc) ==
    IF params = None THEN acc
    ELSE wrapped_parameters(sort_ordered_objects(params[1]), acc)

\* a defaultdict(set) after d[k] was read for every k of `keys`
RECURSIVE defaultdict_read(_, _)
defaultdict_read(d, keys) ==
    IF keys = <<>> THEN d
    ELSE defaultdict_read(IF dict_has(d, keys[1]) THEN d ELSE Append(d, <<keys[1], {}>>),
                          Tail(keys))

\* "deps[dep].add(name)" for a defaultdict(set) `deps` that has the key dep
deps_add(deps, dep, name) == dict_set(deps, dep, dict_get(deps, dep) \cup {name})

\* "deps[dep].add(name)" for every dep of field_revdeps
RECURSIVE deps_added(_, _, _)
deps_added(deps, field_revdeps, name) ==
    IF field_revdeps = <<>> THEN deps
    ELSE deps_added(deps_add(defaultdict_read(deps, <<field_revdeps[1]>>),
                             field_revdeps[1], name),
                    Tail(field_revdeps), name)

\* the body of the loop of _check_parameter_dependencies for the parameter
\* `name`, on deep_revdeps as it is after the reads of deep_revdeps[dep]
revdeps_recorded(deep_revdeps, deps, name, field_revdeps) ==
    [deep_revdeps |->
         dict_set(deep_revdeps, name,
                  UNION {dict_get(deep_revdeps, dep) : dep \in Range(field_revdeps)}
                      \cup Range(field_revdeps)),
     deps |-> deps_added(deps, field_revdeps, name)]

\* one turn of the loop of _check_parameter_dependencies, for the parameter
\* `name` whose get_revdeps gave field_revdeps
revdeps_turn(state, name, field_revdeps) ==
    IF field_revdeps = <<>> THEN state
    ELSE revdeps_recorded(defaultdict_read(state.deep_revdeps, field_revdeps),
                          state.deps, name, field_revdeps)

\* the loop of _check_parameter_dependencies over the items `todo` of
\* `parameters`
RECURSIVE revdeps_loop(_, _, _)
revdeps_loop(state, todo, parameters) ==
    IF todo = <<>> THEN state
    ELSE revdeps_loop(revdeps_turn(state, todo[1][1], get_revdeps(todo[1][2], parameters)),
                      Tail(todo), parameters)

\* the names that are in their own deep_revdeps, in the order of its keys
cyclic_names(deep_revdeps) ==
    SelectSeq([i \in DOMAIN deep_revdeps |-> deep_revdeps[i][1]],
              LAMBDA name : name \in dict_get(deep_revdeps, name))

\* the end of _check_parameter_dependencies, after the loop
dependencies_checked(state) ==
    [cyclic |-> cyclic_names(state.deep_revdeps), deps |-> state.deps]

\* FactoryOptions._check_parameter_dependencies(parameters): the names given
\* in the CyclicDefinitionError (none if it is not raised), and deps
_check_parameter_dependencies(parameters) ==
    dependencies_checked(revdeps_loop([deep_revdeps |-> <<>>, deps |-> <<>>],
                                      parameters, parameters))

\* the field names, were the ancestors not looked at
inherited_auto_fields_none(reg, parents, field_names) == field_names

\* the include_auto_fields / exclude_auto_fields of the ancestors, applied
\* the furthest first
RECURSIVE inherited_auto_fields(_, _, _)
inherited_auto_fields(reg, parents, field_names) ==
    IF parents = <<>> THEN field_names
    ELSE LET pm == reg[parents[1]]._meta
         IN  inherited_auto_fields(reg, Tail(parents),
                 (field_names \cup Range(getattr(pm, "include_auto_fields", <<>>)))
                     \ Range(getattr(pm, "exclude_auto_fields", <<>>)))

\* the field names wanted from the introspector, had the own inclusions been
\* applied before those of the ancestors
candidate_field_names_own_first(reg, self, parents, defaults) ==
    inherited_auto_fields(reg, parents, defaults \cup Range(self.include_auto_fields))
        \ (dict_keys(self.base_declarations) \cup Range(self.exclude_auto_fields))

\* the field names wanted from the introspector, had the names that have a
\* declaration already been left in
candidate_field_names_declared(reg, self, parents, defaults) ==
    (inherited_auto_fields(reg, parents, defaults) \cup Range(self.include_auto_fields))
        \ Range(self.exclude_auto_fields)

\* the field names wanted from the introspector: the defaults, with the
\* inclusions and exclusions of the ancestors, then the own inclusions, less
\* the own exclusions and the names that have a declaration already
candidate_field_names(reg, self, parents, defaults) ==
    (inherited_auto_fields(reg, parents, defaults) \cup Range(self.include_auto_fields))
        \ (dict_keys(self.base_declarations) \cup Range(self.exclude_auto_fields))

\* the end of the auto-field part of contribute_to_class, for the
\* declarations `built` that the introspector returned for field_names
auto_fields_built(self, field_names, built) ==
    IF built.error # ""
    THEN [error |-> built.error, base_declarations |-> <<>>,
          field_names |-> Some(field_names)]
    ELSE IF dict_keys(built.declarations) \ field_names # {}
    THEN [error |-> "ValueError", base_declarations |-> <<>>,
          field_names |-> Some(field_names)]
    ELSE [error |-> "",
          base_declarations |-> dict_update(self.base_declarations, built.declarations),
          field_names |-> Some(field_names)]

\* the call of introspector.build_declarations(field_names, exclude_auto_fields)
auto_fields_wanted(self, introspector, field_names, order) ==
    auto_fields_built(self, field_names,
                      build_declarations(introspector, self.model[1], field_names,
                                         dict_keys(self.base_declarations)
                                             \cup Range(self.exclude_auto_fields),
                                         order))

\* the auto-field part of contribute_to_class after the default field names
\* `defaults` were asked for
auto_fields_from(reg, self, parents, introspector, defaults, order) ==
    IF defaults.error # ""
    THEN [error |-> defaults.error, base_declarations |-> <<>>, field_names |-> None]
    ELSE auto_fields_wanted(self, introspector,
                            candidate_field_names(reg, self, parents, defaults.names),
                            order)

\* the auto-field part of contribute_to_class with the introspector in use
auto_fields_by(reg, self, parents, introspector, order) ==
    auto_fields_from(reg, self, parents, introspector,
                     IF self.default_auto_fields
                     THEN get_default_field_names(introspector, self.model[1])
                     ELSE [error |-> "", names |-> {}],
                     order)

\* the auto-field part of contribute_to_class: the base declarations with the
\* introspector's added, or the error raised; and, as history, the
\* field_names given to the introspector (None if it was not called); the
\* set field_names is iterated in the order `order`
auto_fields(reg, self, parents, order) ==
    IF ~(~self.abstract /\ (self.default_auto_fields \/ self.include_auto_fields # <<>>))
    THEN [error |-> "", base_declarations |-> self.base_declarations,
          field_names |-> None]
    ELSE auto_fields_by(reg, self, parents, introspector_for(self.introspector_class),
                        order)

\* param.as_declarations(name, declarations) of a Trait: for every name it
\* overrides, a declaration that decides by the value of the trait `name`
\* between the override and the declaration there was before
RECURSIVE as_declarations(_, _, _)
as_declarations(name, fields, decls) ==
    IF fields = <<>> THEN <<>>
    ELSE << <<fields[1],
              [kind |-> "Maybe", decider |-> name,
               no_declaration |-> IF dict_has(decls, fields[1])
                                  THEN Some(dict_get(decls, fields[1])) ELSE None]>> >>
         \o as_declarations(name, Tail(fields), decls)

\* the loop of FactoryOptions.declarations over the sorted parameters
RECURSIVE expanded_parameters(_, _)
expanded_parameters(todo, base_declarations) ==
    IF todo = <<>> THEN base_declarations
    ELSE expanded_parameters(
             Tail(todo),
             dict_update(base_declarations,
                         IF todo[1][2].kind = "Trait"
                         THEN as_declarations(todo[1][1], sorted(todo[1][2].overrides),
                                              base_declarations)
                         ELSE << <<todo[1][1], todo[1][2].value>> >>))

\* FactoryOptions.declarations
declarations(self) ==
    expanded_parameters(sort_ordered_objects(self.parameters), self.base_declarations)

\* the parameters of `self` in the order in which FactoryOptions.declarations
\* calls their as_declarations
expansion_order(self) == dict_names(sort_ordered_objects(self.parameters))

\* builder.parse_declarations(decls), with no base sets: the declarations of
\* the post-instantiation phase apart from the others, each in the order of
\* decls
parse_declarations(decls) ==
    [pre |-> SelectSeq(decls, LAMBDA item :
                 get_builder_phase(item[2]) # Some("post_declaration")),
     post |-> SelectSeq(decls, LAMBDA item :
                  get_builder_phase(item[2]) = Some("post_declaration"))]

\* self.pre_declarations, self.post_declarations = parsed
declarations_parsed(self, parsed) ==
    [self EXCEPT !.pre_declarations = parsed.pre, !.post_declarations = parsed.post]

\* the end of contribute_to_class: the error raised, or the _meta of the
\* class; `self` is the options before the auto fields, `auto` the outcome
\* of the auto-field part, `cyclic` the names of the CyclicDefinitionError
contributed(factory, meta, self, auto, cyclic) ==
    IF UnknownMetaAttrs(meta) # {}
    THEN [error |-> "TypeError", blame |-> factory,
          names |-> sorted(UnknownMetaAttrs(meta)), field_names |-> None,
          meta |-> FactoryOptions_init]
    ELSE IF auto.error # ""
    THEN [error |-> auto.error, blame |-> "", names |-> <<>>,
          field_names |-> auto.field_names, meta |-> FactoryOptions_init]
    ELSE IF cyclic # <<>>
    THEN [error |-> "CyclicDefinitionError", blame |-> factory, names |-> cyclic,
          field_names |-> auto.field_names, meta |-> FactoryOptions_init]
    ELSE [error |-> "", blame |-> "", names |-> <<>>,
          field_names |-> auto.field_names,
          meta |-> declarations_parsed(
                       [self EXCEPT !.base_declarations = auto.base_declarations],
                       parse_declarations(declarations(
                           [self EXCEPT !.base_declarations = auto.base_declarations])))]

\* contribute_to_class from the auto fields on, for the options `self`
contribute_auto_fields(reg, factory, meta, parents, self, order) ==
    contributed(factory, meta, self, auto_fields(reg, self, parents, order),
                _check_parameter_dependencies(self.parameters).cyclic)

\* contribute_to_class after _fill_from_meta and get_model_class: the
\* options filled in `filled`, the model, the parents the furthest first
contribute_options(reg, factory, body, meta, base_factory, params, filled, model, parents, order) ==
    contribute_auto_fields(reg, factory, meta, parents,
        [filled EXCEPT !.model = model,
                       !.abstract = ForceAbstract(model, filled.abstract)]
        @@ [factory |-> Some(factory),
            base_factory |-> base_factory,
            base_declarations |->
                own_declarations(body, inherited_declarations(reg, parents, <<>>)),
            parameters |->
                own_parameters(params, inherited_parameters(reg, parents, <<>>)),
            pre_declarations |-> <<>>,
            post_declarations |-> <<>>,
            _counter |-> None,
            counter_reference |->
                _get_counter_reference(reg, factory, model, base_factory)],
        order)

\* contribute_to_class after _fill_from_meta
contribute_filled(reg, factory, body, meta, base_factory, params, filled, order) ==
    contribute_options(reg, factory, body, meta, base_factory, params, filled,
                       get_model_class(filled), Reverse(mro(reg, base_factory[1])), order)

\* FactoryOptions.contribute_to_class for the new class `factory` with the
\* body `body`: the error raised, or the _meta of the class; `order` is the
\* order in which it iterates the set of field names
contribute_to_class(reg, factory, body, meta, base_meta, base_factory, params, order) ==
    contribute_filled(reg, factory, body, meta, base_factory, params,
                      _fill_from_meta(meta, base_meta), order)

(***************************************************************************)
(* Classes.  BaseFactory is a plain class that holds a bare                *)
(* FactoryOptions(); Factory is built by the metaclass with Meta=BaseMeta. *)
(***************************************************************************)
BaseMeta == [abstract |-> TRUE, strategy |-> CREATE_STRATEGY]

BaseFactoryClass ==
    [base |-> None,
     attrs |-> << <<"_setup_next_sequence", classmethod(0)>>,
                  <<"_adjust_kwargs", adjusting(None)>> >>,
     _meta |-> FactoryOptions_init]

\* resolve_attribute('_meta', bases), for the one base
resolve_meta(reg, base) == Some(reg[base]._meta)

\* attrs.pop(name, None)
attrs_pop(attrs, name) ==
    IF dict_has(attrs, name) THEN Some(dict_get(attrs, name)) ELSE None

\* the class that type.__new__ made with the body `body`, after
\* contribute_to_class ended as `made` holds
new_class(base, body, made) ==
    [error |-> made.error, blame |-> made.blame, names |-> made.names,
     field_names |-> made.field_names,
     class |-> [base |-> Some(base), attrs |-> body, _meta |-> made.meta]]

\* FactoryMetaClass.__new__ with the body `body` left after Meta and Params
\* were popped
new_with_body(reg, class_name, base, attrs, body, order) ==
    new_class(base, body,
              contribute_to_class(reg, class_name, body, attrs_pop(attrs, "Meta"),
                                  resolve_meta(reg, base), Some(base),
                                  attrs_pop(attrs, "Params"), order))

\* FactoryMetaClass.__new__ for a class statement with the one base `base`
\* (a factory) and the body `attrs`: the error raised, or the class; `order`
\* is the order in which the set of field names is iterated
FactoryMetaClass_new(reg, class_name, base, attrs, order) ==
    new_with_body(reg, class_name, base, attrs,
                  dict_without(dict_without(attrs, "Meta"), "Params"), order)

\* attribute lookup on a class, along its bases
RECURSIVE class_getattr(_, _, _)
class_getattr(reg, cls, name) ==
    IF dict_has(reg[cls].attrs, name) THEN dict_get(reg[cls].attrs, name)
    ELSE class_getattr(reg, reg[cls].base[1], name)

\* cls._setup_next_sequence()
_setup_next_sequence(reg, cls) == class_getattr(reg, cls, "_setup_next_sequence").returns

InitialRegistry ==
    LET reg0 == [c \in {"BaseFactory"} |-> BaseFactoryClass]
    IN  ("Factory" :> FactoryMetaClass_new(reg0, "Factory", "BaseFactory",
                                           << <<"Meta", BaseMeta>> >>,
                                           <<>>).class) @@ reg0

\* the factories: the classes built by the metaclass
Factories == DOMAIN registry \ {"BaseFactory"}
UserFactories == Factories \ {"Factory"}

(***************************************************************************)
(* _Counter.                                                               *)
(***************************************************************************)
_Counter(seq) == [seq |-> seq]

\* _Counter.next, were the value not incremented
_Counter_next_same(self) == [value |-> self.seq, counter |-> self]

\* _Counter.next: the value returned and the counter afterwards
_Counter_next(self) ==
    [value |-> self.seq, counter |-> [self EXCEPT !.seq = self.seq + 1]]

\* _Counter.reset, were the value not stored
_Counter_reset_lost(self, next_value) == self

\* _Counter.reset
_Counter_reset(self, next_value) == [self EXCEPT !.seq = next_value]

(***************************************************************************)
(* The heap: the classes, the counters and the history of the counters,    *)
(* as the methods of FactoryOptions read and change them.                  *)
(*                                                                         *)
(* The history, per _Counter: the reset_sequence call that last succeeded  *)
(* on it (None before any), the draws made since then (or since it was     *)
(* created), and the highest value it ever returned.                       *)
(***************************************************************************)
Heap(reg, ctrs, tr) == [registry |-> reg, counters |-> ctrs, trace |-> tr]

NewTrace == [origin |-> None, drawn |-> <<>>, highest |-> None]

Max(a, b) == IF a >= b THEN a ELSE b

\* self._counter = c, for the options of factory f
set_counter(reg, f, c) == [reg EXCEPT ![f]._meta._counter = c]

\* the seed, were _setup_next_sequence not asked
SeedValue_zero(reg, f) == 0

\* the value that seeds the counter created by factory f
SeedValue(reg, f) == _setup_next_sequence(reg, f)

\* "self._counter = _Counter(seq=self.factory._setup_next_sequence())" on the
\* options of factory f; the new _Counter is stored under the name f
create_counter(h, f) ==
    Heap(set_counter(h.registry, f, Some(f)),
         (f :> _Counter(SeedValue(h.registry, f))) @@ h.counters,
         (f :> NewTrace) @@ h.trace)

\* _initialize_counter, were the counter reference to make a _Counter each
\* time a factory that shares it first needs one
_initialize_counter_again(h, f) ==
    LET self == h.registry[f]._meta
        ref == self.counter_reference[1]
    IN  IF self._counter # None THEN h
        ELSE IF ref = f THEN create_counter(h, f)
        ELSE LET h1 == create_counter(h, ref)
             IN  Heap(set_counter(h1.registry, f, h1.registry[ref]._meta._counter),
                      h1.counters, h1.trace)

\* _initialize_counter, were a factory that shares a counter given a
\* _Counter of its own that starts where the shared one stands
_initialize_counter_copied(h, f) ==
    LET self == h.registry[f]._meta
        ref == self.counter_reference[1]
    IN  IF self._counter # None THEN h
        ELSE IF ref = f THEN create_counter(h, f)
        ELSE LET h1 == IF h.registry[ref]._meta._counter # None THEN h
                       ELSE create_counter(h, ref)
             IN  Heap(set_counter(h1.registry, f, Some(f)),
                      (f :> h1.counters[ref]) @@ h1.counters,
                      (f :> NewTrace) @@ h1.trace)

\* FactoryOptions._initialize_counter, on the options of factory f.  The
\* counter reference of a factory is a factory that refers to itself, so the
\* call on the reference takes one of the first two branches.
_initialize_counter(h, f) ==
    LET self == h.registry[f]._meta
        ref == self.counter_reference[1]
    IN  IF self._counter # None THEN h
        ELSE IF ref = f THEN create_counter(h, f)
        ELSE LET h1 == IF h.registry[ref]._meta._counter # None THEN h
                       ELSE create_counter(h, ref)
             IN  Heap(set_counter(h1.registry, f, h1.registry[ref]._meta._counter),
                      h1.counters, h1.trace)

\* "return self._counter.next()", once the counter of factory f is initialized
counter_next(h1, f) ==
    LET c == h1.registry[f]._meta._counter[1]
        n == _Counter_next(h1.counters[c])
    IN  [value |-> n.value,
         heap |-> Heap(h1.registry,
                       [h1.counters EXCEPT ![c] = n.counter],
                       [h1.trace EXCEPT
                           ![c].drawn = Append(@, [f |-> f, ret |-> n.value]),
                           ![c].highest = IF @ = None THEN Some(n.value)
                                          ELSE Some(Max(@[1], n.value))])]

\* FactoryOptions.next_sequence on the options of factory f: the value
\* returned and the heap afterwards
meta_next_sequence(h, f) == counter_next(_initialize_counter(h, f), f)

\* the ownership check, were force not looked at
reset_refused_forced(self_is_reference, force) == ~self_is_reference

\* whether reset_sequence raises the ValueError of the ownership check
reset_refused(self_is_reference, force) == ~self_is_reference /\ ~force

\* the value, were the factory reset_sequence is called on asked for it
reset_value_own(reg, self, value) ==
    IF value = None THEN _setup_next_sequence(reg, self.factory[1]) ELSE value[1]

\* the value reset_sequence gives to _Counter.reset
reset_value(reg, self, value) ==
    IF value = None
    THEN _setup_next_sequence(reg, reg[self.counter_reference[1]]._meta.factory[1])
    ELSE value[1]

\* reset_sequence, were the ownership looked at after the _Counter was reset
meta_reset_sequence_then_refused(h, f, value, force) ==
    LET h1 == _initialize_counter(h, f)
        self == h1.registry[f]._meta
        c == self._counter[1]
        refused == reset_refused(self.counter_reference = Some(f), force)
    IN  [error |-> IF refused THEN "ValueError" ELSE "",
         blame |-> IF refused
                   THEN h1.registry[self.counter_reference[1]]._meta.factory[1] ELSE "",
         heap |-> Heap(h1.registry,
                       [h1.counters EXCEPT
                           ![c] = _Counter_reset(@, reset_value(h1.registry, self, value))],
                       [h1.trace EXCEPT
                           ![c].drawn = <<>>,
                           ![c].origin = Some([f |-> f, value |-> value,
                                               force |-> force])])]

\* FactoryOptions.reset_sequence on the options of factory f: the error
\* raised (with the factory its message names) and the heap afterwards
meta_reset_sequence(h, f, value, force) ==
    LET h1 == _initialize_counter(h, f)
        self == h1.registry[f]._meta
        c == self._counter[1]
    IN  IF reset_refused(self.counter_reference = Some(f), force)
        THEN [error |-> "ValueError",
              blame |-> h1.registry[self.counter_reference[1]]._meta.factory[1],
              heap |-> h1]
        ELSE [error |-> "", blame |-> "",
              heap |-> Heap(h1.registry,
                            [h1.counters EXCEPT
                                ![c] = _Counter_reset(@, reset_value(h1.registry, self, value))],
                            [h1.trace EXCEPT
                                ![c].drawn = <<>>,
                                ![c].origin = Some([f |-> f, value |-> value,
                                                    force |-> force])])]

(***************************************************************************)
(* Generation: FactoryOptions.prepare_arguments and instantiate,           *)
(* BaseFactory._generate, build, create, stub and their batch variants,    *)
(* FactoryMetaClass.__call__.  builder.StepBuilder is in builder.py.       *)
(***************************************************************************)
\* cls._adjust_kwargs(**kwargs), for the classmethod `hook` that the class
\* has: BaseFactory._adjust_kwargs, or the one of a class body
_adjust_kwargs(hook, kwargs) ==
    IF hook.sets = None THEN kwargs
    ELSE dict_set(kwargs, hook.sets[1][1], hook.sets[1][2])

\* "2. Remove hidden objects": whether the item k: v stays
is_kept(self, k, v) ==
    /\ k \notin Range(self.exclude)
    /\ k \notin dict_keys(self.parameters)
    /\ v # SKIP

\* "3. Rename fields": the KeyError raised, or the kwargs renamed
RECURSIVE rename_fields(_, _)
rename_fields(kwargs, rename) ==
    IF rename = <<>> THEN [error |-> "", kwargs |-> kwargs]
    ELSE IF ~dict_has(kwargs, rename[1][1]) THEN [error |-> "KeyError", kwargs |-> kwargs]
    ELSE rename_fields(dict_set(dict_without(kwargs, rename[1][1]), rename[1][2],
                                dict_get(kwargs, rename[1][1])),
                       Tail(rename))

\* the inline args, were their names left in the kwargs
RECURSIVE extract_inline_args_kept(_, _, _)
extract_inline_args_kept(kwargs, inline_args, args) ==
    IF inline_args = <<>> THEN [error |-> "", args |-> args, kwargs |-> kwargs]
    ELSE IF ~dict_has(kwargs, inline_args[1])
    THEN [error |-> "KeyError", args |-> args, kwargs |-> kwargs]
    ELSE extract_inline_args_kept(kwargs, Tail(inline_args),
                                  Append(args, dict_get(kwargs, inline_args[1])))

\* "4. Extract inline args": the KeyError raised, or the args and the kwargs left
RECURSIVE extract_inline_args(_, _, _)
extract_inline_args(kwargs, inline_args, args) ==
    IF inline_args = <<>> THEN [error |-> "", args |-> args, kwargs |-> kwargs]
    ELSE IF ~dict_has(kwargs, inline_args[1])
    THEN [error |-> "KeyError", args |-> args, kwargs |-> kwargs]
    ELSE extract_inline_args(dict_without(kwargs, inline_args[1]), Tail(inline_args),
                             Append(args, dict_get(kwargs, inline_args[1])))

\* prepare_arguments, were the fields renamed before the hidden ones are
\* removed
prepare_arguments_rename_first(self, hook, attributes) ==
    LET adjusted == _adjust_kwargs(hook, attributes)
        renamed == rename_fields(adjusted, self.rename)
        kept == SelectSeq(renamed.kwargs, LAMBDA item : is_kept(self, item[1], item[2]))
    IN  [received |-> attributes, renamed |-> kept]
        @@ (IF renamed.error # ""
            THEN [error |-> renamed.error, args |-> <<>>, kwargs |-> <<>>]
            ELSE extract_inline_args(kept, self.inline_args, <<>>))

\* FactoryOptions.prepare_arguments, for the _adjust_kwargs `hook` of the
\* factory: the KeyError raised, or the args and kwargs; and, as history, the
\* kwargs that the hook received and the kwargs as they were after step 3
prepare_arguments(self, hook, attributes) ==
    LET adjusted == _adjust_kwargs(hook, attributes)
        kept == SelectSeq(adjusted, LAMBDA item : is_kept(self, item[1], item[2]))
        renamed == rename_fields(kept, self.rename)
    IN  [received |-> attributes, renamed |-> renamed.kwargs]
        @@ (IF renamed.error # ""
            THEN [error |-> renamed.error, args |-> <<>>, kwargs |-> <<>>]
            ELSE extract_inline_args(renamed.kwargs, self.inline_args, <<>>))

\* what an instantiation hook returns: the object, with the hook that made it
Instance(via, class, args, kwargs) ==
    [via |-> via, class |-> class, args |-> args, kwargs |-> kwargs]

\* BaseFactory._build and _create, called as `via`:
\* model_class(*args, **kwargs), a TypeError if model_class is None
model_called(via, model, args, kwargs) ==
    IF model = None THEN [error |-> "TypeError", made |-> <<>>]
    ELSE [error |-> "", made |-> <<Instance(via, model, args, kwargs)>>]

\* instantiate, were the stub strategy to call the build hook
instantiate_built(self, strategy, args, kwargs) ==
    IF strategy = CREATE_STRATEGY
    THEN model_called("_create", get_model_class(self), args, kwargs)
    ELSE model_called("_build", get_model_class(self), args, kwargs)

\* FactoryOptions.instantiate, with BaseFactory._build and _create: the
\* error raised, or the object made
instantiate(self, strategy, args, kwargs) ==
    LET model == get_model_class(self)
    IN  IF strategy = BUILD_STRATEGY THEN model_called("_build", model, args, kwargs)
        ELSE IF strategy = CREATE_STRATEGY
        THEN model_called("_create", model, args, kwargs)
        ELSE IF strategy # STUB_STRATEGY THEN [error |-> "AssertionError", made |-> <<>>]
        ELSE [error |-> "",
              made |-> <<Instance("StubObject", Some("StubObject"), <<>>, kwargs)>>]

\* The evaluation of the declarations `decls` of factory cls, in order, with
\* the caller's overrides `params` used verbatim; a Sequence draws from the
\* counter of cls.
\* a Sequence named `name` evaluated to the value drawn in n
sequence_evaluated(done, name, n) ==
    [attributes |-> dict_set(done.attributes, name, PyInt(n.value)),
     events |-> Append(done.events, <<"evaluate", name>>),
     heap |-> n.heap]

\* one declaration evaluated after the state `done` of those before it
resolve_declaration(done, cls, name, decl, params) ==
    IF dict_has(params, name)
    THEN [done EXCEPT !.attributes = dict_set(@, name, dict_get(params, name))]
    ELSE IF decl.kind = "Sequence"
    THEN sequence_evaluated(done, name, meta_next_sequence(done.heap, cls))
    ELSE [done EXCEPT !.attributes =
                          dict_set(@, name,
                                   IF decl.kind = "value" THEN decl.value ELSE PyInt(0)),
                      !.events = Append(@, <<"evaluate", name>>)]

RECURSIVE resolve_declarations(_, _, _, _)
resolve_declarations(done, cls, decls, params) ==
    IF decls = <<>> THEN done
    ELSE resolve_declarations(
             resolve_declaration(done, cls, decls[1][1], decls[1][2], params),
             cls, Tail(decls), params)

\* the end of StepBuilder.build: `instance` is what instantiate returned or
\* raised for the arguments prepared
instantiated(self, resolved, prepared, instance) ==
    IF instance.error # ""
    THEN [error |-> instance.error, built |-> <<>>,
          events |-> Append(resolved.events,
                            <<"_adjust_kwargs", prepared.received, prepared.renamed>>),
          heap |-> resolved.heap]
    ELSE [error |-> "", built |-> instance.made,
          events |-> resolved.events
                        \o << <<"_adjust_kwargs", prepared.received, prepared.renamed>>,
                              <<"call", instance.made[1].via>> >>
                        \o [i \in DOMAIN self.post_declarations |->
                                <<"post", self.post_declarations[i][1]>>],
          heap |-> resolved.heap]

\* the call of the instantiation hook with the arguments prepared
build_prepared(self, resolved, prepared, strategy) ==
    IF prepared.error # ""
    THEN [error |-> prepared.error, built |-> <<>>,
          events |-> Append(resolved.events,
                            <<"_adjust_kwargs", prepared.received, prepared.renamed>>),
          heap |-> resolved.heap]
    ELSE instantiated(self, resolved, prepared,
                      instantiate(self, strategy, prepared.args, prepared.kwargs))

\* the instantiation from the declarations resolved
build_resolved(self, resolved, params, strategy) ==
    build_prepared(self, resolved,
                   prepare_arguments(self,
                                     class_getattr(resolved.heap.registry, self.factory[1],
                                                   "_adjust_kwargs"),
                                     dict_update(resolved.attributes, params)),
                   strategy)

\* builder.StepBuilder(cls._meta, params, strategy).build()
StepBuilder_build(h, cls, params, strategy) ==
    build_resolved(h.registry[cls]._meta,
                   resolve_declarations([attributes |-> <<>>, events |-> <<>>, heap |-> h],
                                        cls, h.registry[cls]._meta.pre_declarations, params),
                   params, strategy)

\* _generate, were the abstract flag not looked at
_generate_any(h, cls, strategy, params) == StepBuilder_build(h, cls, params, strategy)

\* BaseFactory._generate
_generate(h, cls, strategy, params) ==
    IF h.registry[cls]._meta.abstract
    THEN [error |-> "FactoryError", built |-> <<>>, events |-> <<>>, heap |-> h]
    ELSE StepBuilder_build(h, cls, params, strategy)

\* BaseFactory.build_batch / create_batch / stub_batch:
\* [cls.build(**kwargs) for _ in range(size)]
RECURSIVE generate_batch(_, _, _, _, _, _, _)
RECURSIVE batch_item(_, _, _, _, _, _, _)
generate_batch(h, cls, strategy, size, params, built, events) ==
    IF size <= 0 THEN [error |-> "", built |-> built, events |-> events, heap |-> h]
    ELSE batch_item(_generate(h, cls, strategy, params), cls, strategy, size, params,
                    built, events)

\* the item `one` of the list, and the items after it
batch_item(one, cls, strategy, size, params, built, events) ==
    IF one.error # ""
    THEN [error |-> one.error, built |-> <<>>,
          events |-> events \o one.events, heap |-> one.heap]
    ELSE generate_batch(one.heap, cls, strategy, size - 1, params,
                        built \o one.built, events \o one.events)

\* cls(**params), were the create strategy used whatever class Meta says
FactoryMetaClass_call_create(h, cls, params) ==
    _generate(h, cls, CREATE_STRATEGY, params)

\* cls(**params), were a strategy that is not known taken for the default one
FactoryMetaClass_call_default(h, cls, params) ==
    LET strategy == h.registry[cls]._meta.strategy
    IN  _generate(h, cls, IF strategy \in Strategies THEN strategy ELSE CREATE_STRATEGY,
                  params)

\* FactoryMetaClass.__call__: cls(**params)
FactoryMetaClass_call(h, cls, params) ==
    LET strategy == h.registry[cls]._meta.strategy
    IN  IF strategy \in Strategies THEN _generate(h, cls, strategy, params)
        ELSE [error |-> "UnknownStrategy", built |-> <<>>, events |-> <<>>, heap |-> h]

(***************************************************************************)
(* Actions.                                                                *)
(***************************************************************************)
NoResult ==
    [op |-> "none", f |-> "", value |-> None, force |-> FALSE,
     strategy |-> "", size |-> None, ret |-> None, built |-> <<>>,
     error |-> "", blame |-> "", names |-> <<>>, events |-> <<>>,
     base |-> "", statement |-> <<>>, field_names |-> None, expanded |-> <<>>,
     params |-> <<>>]

SetHeap(h) ==
    /\ registry' = h.registry
    /\ counters' = h.counters
    /\ trace' = h.trace

TheHeap == Heap(registry, counters, trace)

\* the class statement, were the base_declarations of the base not copied
\* for the new class but shared with it
Defined_shared(class_name, base, attrs, new) ==
    /\ registry' = IF new.error # "" THEN registry
                   ELSE (class_name :> (new.class @@ [statement |-> attrs]))
                        @@ [registry EXCEPT ![base]._meta.base_declarations =
                                                new.class._meta.base_declarations]
    /\ result' = [NoResult EXCEPT !.op = "class", !.f = class_name,
                                  !.error = new.error,
                                  !.blame = new.blame, !.names = new.names,
                                  !.base = base, !.statement = attrs,
                                  !.field_names = new.field_names,
                                  !.expanded =
                                      IF new.error # "" THEN <<>>
                                      ELSE expansion_order(new.class._meta)]

\* the class statement ended as `new` holds: the class is registered unless
\* an error was raised
Defined(class_name, base, attrs, new) ==
    /\ registry' = IF new.error # "" THEN registry
                   ELSE (class_name :> (new.class @@ [statement |-> attrs])) @@ registry
    /\ result' = [NoResult EXCEPT !.op = "class", !.f = class_name,
                                  !.error = new.error,
                                  !.blame = new.blame, !.names = new.names,
                                  !.base = base, !.statement = attrs,
                                  !.field_names = new.field_names,
                                  !.expanded =
                                      IF new.error # "" THEN <<>>
                                      ELSE expansion_order(new.class._meta)]

\* the orders in which the class statement can meet the fields of its model
\* when it iterates the set of field names
FieldOrders(reg, base, attrs) ==
    LET model == get_model_class(_fill_from_meta(attrs_pop(attrs, "Meta"),
                                                 resolve_meta(reg, base)))
    IN  IterationOrders(IF model # None /\ model[1] \in DOMAIN ModelFields
                        THEN Range(ModelFields[model[1]]) ELSE {})

\* a class statement: class class_name(base) with the body attrs; the set
\* of field names, if the statement iterates it, is iterated in any order
DefineClass(class_name, base, attrs) ==
    /\ class_name \notin DOMAIN registry
    /\ base \in Factories
    /\ Cardinality(UserFactories) < MaxDefs
    /\ \E order \in FieldOrders(registry, base, attrs) :
           Defined(class_name, base, attrs,
                   FactoryMetaClass_new(registry, class_name, base, attrs, order))
    /\ UNCHANGED <<counters, trace, ncalls>>

\* f._meta.next_sequence()
next_sequence(f) ==
    /\ ncalls < MaxCalls
    /\ LET n == meta_next_sequence(TheHeap, f)
       IN  /\ SetHeap(n.heap)
           /\ result' = [NoResult EXCEPT !.op = "next_sequence", !.f = f,
                                         !.ret = Some(n.value)]
    /\ ncalls' = ncalls + 1

\* f.reset_sequence(value, force): BaseFactory.reset_sequence
reset_sequence(f, value, force) ==
    /\ ncalls < MaxCalls
    /\ LET r == meta_reset_sequence(TheHeap, f, value, force)
       IN  /\ SetHeap(r.heap)
           /\ result' = [NoResult EXCEPT !.op = "reset_sequence", !.f = f,
                             !.value = value, !.force = force,
                             !.error = r.error, !.blame = r.blame]
    /\ ncalls' = ncalls + 1

\* the call op of factory f returned or raised what g holds
Returned(op, f, strategy, size, params, g) ==
    /\ SetHeap(g.heap)
    /\ result' = [NoResult EXCEPT !.op = op, !.f = f, !.strategy = strategy,
                                  !.size = size, !.params = params, !.built = g.built,
                                  !.error = g.error, !.events = g.events]

\* f.build(**params), f.create(**params), f.stub(**params); f.generate and
\* f.simple_generate call these
generate(f, strategy, params) ==
    /\ ncalls < MaxCalls
    /\ Returned("generate", f, strategy, None, params, _generate(TheHeap, f, strategy, params))
    /\ ncalls' = ncalls + 1

\* f.build_batch(size, **params), f.create_batch, f.stub_batch;
\* f.generate_batch and f.simple_generate_batch call these
batch(f, strategy, size, params) ==
    /\ ncalls < MaxCalls
    /\ Returned("batch", f, strategy, Some(size), params,
                generate_batch(TheHeap, f, strategy, size, params, <<>>, <<>>))
    /\ ncalls' = ncalls + 1

\* f(**params)
call(f, params) ==
    /\ ncalls < MaxCalls
    /\ Returned("call", f, registry[f]._meta.strategy, None, params,
                FactoryMetaClass_call(TheHeap, f, params))
    /\ ncalls' = ncalls + 1

\* use_strategy(new_strategy)(klass): klass._meta.strategy = new_strategy
use_strategy(klass, new_strategy) ==
    /\ ncalls < MaxCalls
    /\ registry' = [registry EXCEPT ![klass]._meta.strategy = new_strategy]
    /\ result' = [NoResult EXCEPT !.op = "use_strategy", !.f = klass,
                                  !.strategy = new_strategy]
    /\ ncalls' = ncalls + 1
    /\ UNCHANGED <<counters, trace>>

Init ==
    /\ registry = InitialRegistry
    /\ counters = <<>>
    /\ result = NoResult
    /\ trace = <<>>
    /\ ncalls = 0

(***************************************************************************)
(* SpecSeq: a family of factories over StandardModel and its subclass, and *)
(* calls of next_sequence and reset_sequence on them.                      *)
(***************************************************************************)
\* the class statements: the base and the body of each
SeqClasses ==
    [ExampleFactory |->
        [base |-> "Factory",
         attrs |-> << <<"Meta", [model |-> Some("StandardModel")]>> >>],
     Example2Factory |->
        [base |-> "ExampleFactory",
         attrs |-> << <<"Meta", [model |-> Some("StandardSon")]>>,
                      <<"_setup_next_sequence", classmethod(5)>> >>],
     SameModelFactory |->
        [base |-> "ExampleFactory", attrs |-> <<>>],
     GrandSonFactory |->
        [base |-> "Example2Factory", attrs |-> <<>>],
     BackToModelFactory |->
        [base |-> "Example2Factory",
         attrs |-> << <<"Meta", [model |-> Some("StandardModel")]>> >>],
     WithFileFactory |->
        [base |-> "ExampleFactory",
         attrs |-> << <<"Meta", [model |-> Some("WithFile")]>>,
                      <<"_setup_next_sequence", classmethod(1)>> >>],
     WithFileSonFactory |->
        [base |-> "WithFileFactory",
         attrs |-> << <<"_setup_next_sequence", classmethod(7)>> >>],
     UnsetModelFactory |->
        [base |-> "ExampleFactory",
         attrs |-> << <<"Meta", [model |-> None]>> >>]]

\* the values given to reset_sequence
ResetValues == {None, Some(3)}

SeqDefine ==
    \E n \in DOMAIN SeqClasses : DefineClass(n, SeqClasses[n].base, SeqClasses[n].attrs)

SeqNext ==
    \/ SeqDefine
    \/ \E f \in UserFactories : next_sequence(f)
    \/ \E f \in UserFactories, v \in ResetValues, force \in BOOLEAN :
           reset_sequence(f, v, force)

SpecSeq == Init /\ [][SeqNext]_vars

(***************************************************************************)
(* Properties of the sequence counters, checked under SpecSeq.             *)
(***************************************************************************)
\* the factory whose counter factory f draws from, the target type of f and
\* the factory f derives from
RefOf(f) == registry[f]._meta.counter_reference[1]
ModelOf(f) == registry[f]._meta.model
BaseOf(f) == registry[f].base[1]

\* the values drawn in `drawn` are start, start + 1, ...
CountsFrom(drawn, start) == \A k \in DOMAIN drawn : drawn[k].ret = start + (k - 1)

\* C1 as stated: while its counter was never reset and only factory f drew
\* from it, the k-th next_sequence() on f (k = 0, 1, ...) returns what
\* _setup_next_sequence of f returns, plus k.
C1_CountsFromOwnInitialValue ==
    \A f \in UserFactories :
        (/\ RefOf(f) \in DOMAIN trace
         /\ trace[RefOf(f)].origin = None
         /\ \A k \in DOMAIN trace[RefOf(f)].drawn : trace[RefOf(f)].drawn[k].f = f)
            => CountsFrom(trace[RefOf(f)].drawn, _setup_next_sequence(registry, f))

\* C1: on a counter that was never reset, the k-th next_sequence() (k = 0,
\* 1, ...) made through the factories that share it returns the initial value
\* plus k, the initial value being what _setup_next_sequence of the factory
\* that owns the counter returns (0 by default).
C1_CountsFromInitialValue ==
    \A c \in DOMAIN trace :
        trace[c].origin = None
            => /\ CountsFrom(trace[c].drawn, _setup_next_sequence(registry, c))
               /\ counters[c].seq
                      = _setup_next_sequence(registry, c) + Len(trace[c].drawn)

\* three draws from a counter never reset, the first by a factory whose own
\* _setup_next_sequence returns another value than that of the owner
C1_Witness ==
    \E c \in DOMAIN trace :
        /\ trace[c].origin = None
        /\ Len(trace[c].drawn) >= 3
        /\ _setup_next_sequence(registry, trace[c].drawn[1].f)
               # _setup_next_sequence(registry, c)

\* C2 as stated: every value returned is greater than every value returned
\* before from the same counter, whether or not it was reset in between.
C2_GreaterThanAllBefore ==
    [][\A c \in DOMAIN trace :
          (/\ c \in DOMAIN trace'
           /\ Len(trace'[c].drawn) = Len(trace[c].drawn) + 1
           /\ trace[c].highest # None)
              => trace'[c].drawn[Len(trace'[c].drawn)].ret > trace[c].highest[1]]_vars

\* C2: every value returned is greater than every value returned before from
\* the same counter since the reset_sequence that last succeeded on it (or
\* since it was created).
C2_IncreasingSinceReset ==
    \A c \in DOMAIN trace :
        \A i, j \in DOMAIN trace[c].drawn :
            i < j => trace[c].drawn[i].ret < trace[c].drawn[j].ret

\* a counter that was reset and has been drawn from since by two factories,
\* twice or more, the later draw returning more than the first
C2_Witness ==
    \E c \in DOMAIN trace :
        /\ Len(trace[c].drawn) >= 2
        /\ trace[c].drawn[1].f # trace[c].drawn[2].f
        /\ trace[c].origin # None
        /\ trace[c].highest # None
        /\ trace[c].highest[1] > trace[c].drawn[1].ret

\* C3: after reset_sequence(v) succeeds, the next next_sequence() on the
\* counter returns v and the ones after it v + 1, v + 2, ...
C3_ResetValueIsNext ==
    \A c \in DOMAIN trace :
        (trace[c].origin # None /\ trace[c].origin[1].value # None)
            => /\ CountsFrom(trace[c].drawn, trace[c].origin[1].value[1])
               /\ counters[c].seq
                      = trace[c].origin[1].value[1] + Len(trace[c].drawn)

\* a counter that was reset to an explicit value and has returned two
\* values since
C3_Witness ==
    \E c \in DOMAIN trace :
        /\ trace[c].origin # None
        /\ trace[c].origin[1].value # None
        /\ trace[c].highest # None
        /\ Len(trace[c].drawn) >= 2

\* C4: a factory whose target type is a subtype of the target type of the
\* factory it derives from draws from the same counter as that factory: they
\* have one counter reference, hold one _Counter once both hold one, and the
\* values drawn from it by either are consecutive.
C4_SubtypeSharesCounter ==
    /\ \A f \in UserFactories :
           (/\ ModelOf(f) # None
            /\ ModelOf(BaseOf(f)) # None
            /\ issubclass(ModelOf(f)[1], ModelOf(BaseOf(f))[1]))
               => /\ RefOf(f) = RefOf(BaseOf(f))
                  /\ registry[f]._meta._counter
                         \in {None, registry[RefOf(f)]._meta._counter}
    /\ \A c \in DOMAIN trace :
           \A k \in 1..(Len(trace[c].drawn) - 1) :
               trace[c].drawn[k + 1].ret = trace[c].drawn[k].ret + 1

\* a base, a factory derived from it for a proper subtype, and the base
\* again have drawn 0, 1, 2
C4_Witness ==
    \E c \in DOMAIN trace :
        /\ Len(trace[c].drawn) = 3
        /\ trace[c].drawn[1] = [f |-> c, ret |-> 0]
        /\ trace[c].drawn[2].ret = 1
        /\ BaseOf(trace[c].drawn[2].f) = c
        /\ ModelOf(trace[c].drawn[2].f) # ModelOf(c)
        /\ trace[c].drawn[3] = [f |-> c, ret |-> 2]

\* C23: after reset_sequence() without a value succeeds, forced from a
\* descendant or not, the next next_sequence() on the counter returns what
\* _setup_next_sequence of the factory that owns the counter returns (0 by
\* default), and the ones after it the values that follow.
C23_ResetWithoutValueIsInitial ==
    \A c \in DOMAIN trace :
        (trace[c].origin # None /\ trace[c].origin[1].value = None)
            => /\ CountsFrom(trace[c].drawn, _setup_next_sequence(registry, c))
               /\ counters[c].seq
                      = _setup_next_sequence(registry, c) + Len(trace[c].drawn)

\* a counter whose owner starts at another value than 0 had returned that
\* value and the next, and was then reset without a value, by force, through
\* a descendant whose own _setup_next_sequence returns yet another value
C23_Witness ==
    /\ result.op = "reset_sequence"
    /\ result.error = ""
    /\ result.value = None
    /\ result.force
    /\ RefOf(result.f) # result.f
    /\ _setup_next_sequence(registry, RefOf(result.f)) # 0
    /\ _setup_next_sequence(registry, result.f)
           # _setup_next_sequence(registry, RefOf(result.f))
    /\ trace[RefOf(result.f)].highest # None
    /\ trace[RefOf(result.f)].highest[1] > _setup_next_sequence(registry, RefOf(result.f))

\* a counter reset without a value through its owner was drawn from since
C23_DrawnWitness ==
    \E c \in DOMAIN trace :
        /\ trace[c].origin # None
        /\ trace[c].origin[1].value = None
        /\ trace[c].origin[1].f = c
        /\ Len(trace[c].drawn) >= 2

\* no _Counter exists before the first call, a class statement makes none
\* and gives the new class none, and a factory holds no other _Counter than
\* the one of its counter reference
CounterOnlyByUse ==
    /\ ncalls = 0 => counters = <<>>
    /\ result.op = "class" /\ result.error = ""
           => registry[result.f]._meta._counter = None
    /\ \A f \in Factories :
           /\ registry[f]._meta._counter \in {None, Some(RefOf(f))}
           /\ registry[f]._meta._counter # None => RefOf(f) \in DOMAIN counters
    /\ \A c \in DOMAIN counters : registry[c]._meta._counter = Some(c)

\* the _Counter c came to exist in this step: by a next_sequence or
\* reset_sequence through a factory that shares it, with the value that
\* _setup_next_sequence of its owner c returns, which that call then used
SeededByFirstUse(c) ==
    /\ result'.op \in {"next_sequence", "reset_sequence"}
    /\ registry[result'.f]._meta.counter_reference = Some(c)
    /\ result'.op = "next_sequence"
           => /\ result'.ret = Some(_setup_next_sequence(registry, c))
              /\ counters'[c].seq = _setup_next_sequence(registry, c) + 1
    /\ result'.op = "reset_sequence"
           => counters'[c].seq = IF result'.error = "" /\ result'.value # None
                                 THEN result'.value[1]
                                 ELSE _setup_next_sequence(registry, c)

\* the _Counter c, which existed, is as it was, or a next_sequence through
\* a factory that shares it returned its value and added one to it, or a
\* reset_sequence through such a factory succeeded
NotSeededAgain(c) ==
    /\ c \in DOMAIN counters'
    /\ \/ counters'[c] = counters[c]
       \/ /\ result'.op = "next_sequence"
          /\ registry[result'.f]._meta.counter_reference = Some(c)
          /\ result'.ret = Some(counters[c].seq)
          /\ counters'[c].seq = counters[c].seq + 1
       \/ /\ result'.op = "reset_sequence"
          /\ result'.error = ""
          /\ registry[result'.f]._meta.counter_reference = Some(c)

\* C24: a _Counter is made by the first next_sequence or reset_sequence
\* through a factory that shares it, never by a class statement; it starts at
\* what _setup_next_sequence of the factory that owns it returns, also when
\* that first call is made on a descendant; and no later use through a
\* factory that shares it makes it anew or sets it back to that value.
C24_CreatedOnFirstUseSeededOnce ==
    /\ []CounterOnlyByUse
    /\ [][\A c \in DOMAIN counters' :
              IF c \in DOMAIN counters THEN NotSeededAgain(c)
              ELSE SeededByFirstUse(c)]_vars

\* a counter first used through a descendant whose own _setup_next_sequence
\* returns another value than the owner's, then used through the owner, which
\* had no _Counter of its own use yet, and then through the descendant again
C24_Witness ==
    \E c \in DOMAIN trace :
        /\ trace[c].origin = None
        /\ Len(trace[c].drawn) = 3
        /\ trace[c].drawn[1].f # c
        /\ _setup_next_sequence(registry, trace[c].drawn[1].f)
               # _setup_next_sequence(registry, c)
        /\ trace[c].drawn[2].f = c
        /\ trace[c].drawn[3].f = trace[c].drawn[1].f

\* the value the counter of owner c is to return next: where it stands, or
\* where it starts if it was not made yet
Cursor(c) ==
    IF c \in DOMAIN counters THEN counters[c].seq ELSE _setup_next_sequence(registry, c)

\* the step is a next_sequence() through a factory of the family of owner c,
\* and it returned the value that follows whatever the family did before
DrawsFromOneCursor(c) ==
    /\ result'.ret = Some(Cursor(c))
    /\ counters'[c].seq = Cursor(c) + 1
    /\ \A d \in DOMAIN counters' \ {c} : d \in DOMAIN counters /\ counters'[d] = counters[d]

\* the step is a reset_sequence through a factory of the family of owner c
\* that succeeded, and the one cursor of the family is at the value given
ResetsTheOneCursor(c) ==
    /\ counters'[c].seq = IF result'.value # None THEN result'.value[1]
                          ELSE _setup_next_sequence(registry, c)
    /\ \A d \in DOMAIN counters' \ {c} : d \in DOMAIN counters /\ counters'[d] = counters[d]

\* C27: the factories with one counter reference observe one cursor.  The
\* counter reference of a factory is the root owner of its chain (it refers
\* to itself); every factory of the family that holds a _Counter holds the
\* owner's; and every next_sequence() through any of them, whether or not it
\* held the _Counter before, returns the value that follows the last draw
\* or successful reset made through any of them, forced resets through
\* descendants included.
C27_OneCursor ==
    /\ [](\A f \in Factories :
             /\ RefOf(RefOf(f)) = RefOf(f)
             /\ registry[f]._meta._counter \in {None, Some(RefOf(f))}
             /\ (/\ f \in UserFactories
                 /\ ModelOf(f) # None
                 /\ ModelOf(BaseOf(f)) # None
                 /\ issubclass(ModelOf(f)[1], ModelOf(BaseOf(f))[1]))
                    => RefOf(f) = RefOf(BaseOf(f)))
    /\ [][/\ result'.op = "next_sequence" => DrawsFromOneCursor(RefOf(result'.f))
          /\ (result'.op = "reset_sequence" /\ result'.error = "")
                 => ResetsTheOneCursor(RefOf(result'.f))]_vars

\* on the chain owner, child, grandchild: a forced reset through the child,
\* then a draw through the grandchild, then a draw through the child, which
\* held the _Counter before the grandchild drew, returned the next value
C27_Witness ==
    \E c \in DOMAIN trace :
        /\ trace[c].origin # None
        /\ trace[c].origin[1].force
        /\ trace[c].origin[1].value # None
        /\ BaseOf(trace[c].origin[1].f) = c
        /\ Len(trace[c].drawn) = 2
        /\ BaseOf(trace[c].drawn[1].f) = trace[c].origin[1].f
        /\ trace[c].drawn[1].ret = trace[c].origin[1].value[1]
        /\ trace[c].drawn[2].f = trace[c].origin[1].f
        /\ trace[c].drawn[2].ret = trace[c].origin[1].value[1] + 1

\* C28: a reset_sequence that raises the ValueError of the ownership check
\* changes for no owner the value that the next next_sequence() through a
\* factory of its family returns, that value being where the counter stands
\* or, if it was never used, what _setup_next_sequence of the owner returns.
C28_RefusedResetKeepsCursor ==
    [][/\ (result'.op = "reset_sequence" /\ result'.error = "ValueError")
              => \A c \in Factories : RefOf(c) = c => Cursor(c)' = Cursor(c)
       /\ result'.op = "next_sequence"
              => result'.ret = Some(Cursor(RefOf(result'.f)))]_vars

\* a reset_sequence to another value than the one the counter stands at,
\* through a descendant and not forced, was refused after the counter had
\* returned values, and the counter stands where it stood
C28_Witness ==
    /\ result.op = "reset_sequence"
    /\ result.error = "ValueError"
    /\ result.value # None
    /\ trace[RefOf(result.f)].drawn # <<>>
    /\ LET drawn == trace[RefOf(result.f)].drawn
       IN  /\ counters[RefOf(result.f)].seq = drawn[Len(drawn)].ret + 1
           /\ counters[RefOf(result.f)].seq # result.value[1]

\* a reset_sequence through a descendant was refused as the first use of
\* the counter, which stands at the initial value of its owner, another value
\* than the one given and than the descendant's own initial value
C28_UnusedWitness ==
    /\ result.op = "reset_sequence"
    /\ result.error = "ValueError"
    /\ ncalls = 1
    /\ result.value # None
    /\ counters[RefOf(result.f)].seq = _setup_next_sequence(registry, RefOf(result.f))
    /\ counters[RefOf(result.f)].seq # result.value[1]
    /\ _setup_next_sequence(registry, result.f)
           # _setup_next_sequence(registry, RefOf(result.f))

\* the target type `model` is a subtype of `base_model`, or the same type
SubtypeOrSame(model, base_model) ==
    model # None /\ base_model # None /\ issubclass(model[1], base_model[1])

\* C5 as stated: a factory shares the counter of the factory it derives from
\* exactly when its target type is a proper subtype of that factory's.
C5_SharesOnlyProperSubtype ==
    \A f \in UserFactories :
        (RefOf(f) # f)
            <=> (SubtypeOrSame(ModelOf(f), ModelOf(BaseOf(f)))
                 /\ ModelOf(f) # ModelOf(BaseOf(f)))

\* a call through a factory changes no counter but the one it draws from
OtherCountersKept ==
    \A c \in DOMAIN counters' :
        (/\ counters' # counters
         /\ result'.f \in DOMAIN registry'
         /\ c # registry'[result'.f]._meta.counter_reference[1])
            => (c \in DOMAIN counters /\ counters'[c] = counters[c])

\* C5: a factory shares the counter of the factory it derives from exactly
\* when its target type is a subtype of that factory's or the same type
\* (given again or inherited); in every other case (an unrelated type, a
\* supertype, no target type on either side) it owns a counter of its own,
\* which calls through factories that do not share it leave as it is.
C5_SharesOnlySubtypeOrSame ==
    /\ [](\A f \in UserFactories :
             RefOf(f) = IF SubtypeOrSame(ModelOf(f), ModelOf(BaseOf(f)))
                        THEN RefOf(BaseOf(f)) ELSE f)
    /\ [][OtherCountersKept]_vars

\* a factory with the target type of its base has drawn from the counter of
\* its base, and a factory derived from the same base for an unrelated type
\* has drawn from its own
C5_Witness ==
    \E f, g \in UserFactories :
        /\ ModelOf(f) # None
        /\ ModelOf(f) = ModelOf(BaseOf(f))
        /\ RefOf(f) = BaseOf(f)
        /\ RefOf(f) \in DOMAIN trace
        /\ \E k \in DOMAIN trace[RefOf(f)].drawn : trace[RefOf(f)].drawn[k].f = f
        /\ BaseOf(g) = BaseOf(f)
        /\ RefOf(g) = g
        /\ g \in DOMAIN trace
        /\ trace[g].drawn # <<>>

\* C6: reset_sequence on a factory that shares the counter of another raises
\* a ValueError naming the owner unless force is given; with force, and on
\* the owner, it succeeds and the one counter that the owner and every
\* factory sharing it hold has the value given (or the owner's initial one).
C6_ResetOnlyOnOwnerOrForced ==
    result.op = "reset_sequence"
        => /\ result.error = (IF RefOf(result.f) # result.f /\ ~result.force
                              THEN "ValueError" ELSE "")
           /\ result.blame = (IF result.error = "" THEN "" ELSE RefOf(result.f))
           /\ result.error = ""
                  => /\ counters[RefOf(result.f)].seq
                            = (IF result.value = None
                               THEN _setup_next_sequence(registry, RefOf(result.f))
                               ELSE result.value[1])
                     /\ \A g \in Factories :
                            RefOf(g) = RefOf(result.f)
                                => registry[g]._meta._counter
                                       \in {None, Some(RefOf(result.f))}

\* a forced reset_sequence on a factory that shares the counter of its base,
\* which the base had drawn from
C6_Witness ==
    /\ result.op = "reset_sequence"
    /\ result.force
    /\ result.error = ""
    /\ RefOf(result.f) # result.f
    /\ registry[RefOf(result.f)]._meta._counter # None
    /\ trace[RefOf(result.f)].highest # None

\* an unforced reset_sequence on a factory that shares the counter of its
\* base was refused
C6_RefusedWitness ==
    /\ result.op = "reset_sequence"
    /\ result.error = "ValueError"
    /\ result.blame # result.f

(***************************************************************************)
(* SpecGen: abstract and concrete factories, with and without a target     *)
(* type, and calls of build, create, stub, the batch variants and the      *)
(* factory itself.                                                         *)
(***************************************************************************)
GenClasses ==
    [AbstractBaseFactory |->
        [base |-> "Factory",
         attrs |-> << <<"Meta", [model |-> Some("StandardModel"), abstract |-> TRUE]>>,
                      <<"foo", Sequence>> >>],
     ConcreteSonFactory |->
        [base |-> "AbstractBaseFactory",
         attrs |-> << <<"Meta", [model |-> Some("StandardSon")]>> >>],
     InheritingFactory |->
        [base |-> "AbstractBaseFactory", attrs |-> << <<"bar", Plain(PyInt(1))>> >>],
     UnsetModelFactory |->
        [base |-> "Factory", attrs |-> << <<"foo", Sequence>> >>],
     NotAbstractFactory |->
        [base |-> "Factory",
         attrs |-> << <<"Meta", [abstract |-> FALSE, strategy |-> STUB_STRATEGY]>>,
                      <<"bar", Plain(PyInt(1))>> >>],
     StandardFactory |->
        [base |-> "Factory",
         attrs |-> << <<"Meta", [model |-> Some("StandardModel"),
                                 strategy |-> BUILD_STRATEGY]>>,
                      <<"foo", Sequence>> >>],
     StubbedFactory |->
        [base |-> "StandardFactory",
         attrs |-> << <<"Meta", [strategy |-> STUB_STRATEGY]>> >>],
     MisspeltFactory |->
        [base |-> "Factory",
         attrs |-> << <<"Meta", [model |-> Some("StandardModel"),
                                 strategy |-> MISSPELT_STRATEGY]>>,
                      <<"foo", Sequence>> >>]]

\* the overrides given to build, create and stub
GenParams == {<<>>, << <<"foo", PyInt(7)>> >>}

\* factories defined besides BaseFactory and Factory in SpecGen
MaxGenDefs == 2
\* calls made in SpecGen
MaxGenCalls == 2

GenDefine ==
    \E n \in DOMAIN GenClasses :
        /\ Cardinality(UserFactories) < MaxGenDefs
        /\ DefineClass(n, GenClasses[n].base, GenClasses[n].attrs)

GenGenerate ==
    \E f \in UserFactories, strategy \in Strategies, params \in GenParams :
        ncalls < MaxGenCalls /\ generate(f, strategy, params)

GenBatch ==
    \E f \in UserFactories, strategy \in Strategies, size \in 0..MaxBatch :
        ncalls < MaxGenCalls /\ batch(f, strategy, size, <<>>)

GenCall ==
    \E f \in UserFactories : ncalls < MaxGenCalls /\ call(f, <<>>)

\* the strategies given to use_strategy
GenStrategies == Strategies \cup {MISSPELT_STRATEGY}

GenUseStrategy ==
    \E f \in UserFactories, strategy \in GenStrategies :
        ncalls < MaxGenCalls /\ use_strategy(f, strategy)

GenNext == GenDefine \/ GenGenerate \/ GenBatch \/ GenCall \/ GenUseStrategy

SpecGen == Init /\ [][GenNext]_vars

(***************************************************************************)
(* Properties of generation, checked under SpecGen.                        *)
(***************************************************************************)
\* the last call was build, create or stub (or generate, simple_generate)
IsGenerate == result.op = "generate"
\* the last call was a batch variant
IsBatch == result.op = "batch"

\* C7 as stated: build, create, stub and their batch variants on an abstract
\* factory raise FactoryError, with no declaration evaluated and no
\* instantiation hook called.
C7_AbstractAlwaysFails ==
    ((IsGenerate \/ IsBatch) /\ registry[result.f]._meta.abstract)
        => (result.error = "FactoryError" /\ result.events = <<>>)

\* C7: an abstract factory is never instantiated: no call on it evaluates a
\* declaration, calls an instantiation hook or returns an object; build,
\* create, stub and the batch variants of size 1 or more raise FactoryError;
\* a batch variant of size 0 returns the empty list.
C7_AbstractNeverInstantiated ==
    (result.op \in {"generate", "batch", "call"} /\ registry[result.f]._meta.abstract)
        => /\ result.built = <<>>
           /\ result.events = <<>>
           /\ (IsGenerate \/ (IsBatch /\ result.size[1] >= 1))
                  => result.error = "FactoryError"
           /\ (IsBatch /\ result.size[1] <= 0) => result.error = ""

\* a batch of two asked of a factory declared abstract, which has a target
\* type and a declaration
C7_Witness ==
    /\ IsBatch
    /\ result.size = Some(2)
    /\ registry[result.f]._meta.abstract
    /\ registry[result.f]._meta.model # None
    /\ registry[result.f]._meta.base_declarations # <<>>
    /\ result.error = "FactoryError"

\* C8 as stated: stub() on a factory with no target type returns a plain
\* attribute container.
C8_StubWithoutModelSucceeds ==
    (IsGenerate /\ result.strategy = STUB_STRATEGY /\ ModelOf(result.f) = None)
        => /\ result.error = ""
           /\ Len(result.built) = 1
           /\ result.built[1].via = "StubObject"

\* C8: stub() on a factory with no target type raises FactoryError, as build
\* and create do (such a factory is abstract); the stub strategy does not use
\* the target type otherwise: a stub() that returns, returns a plain
\* attribute container (StubObject) whatever the target type, and calls
\* neither _build nor _create.
C8_StubNeedsNoModelButConcrete ==
    (IsGenerate /\ result.strategy = STUB_STRATEGY)
        => /\ ModelOf(result.f) = None
                  => (result.error = "FactoryError" /\ result.built = <<>>)
           /\ result.error = ""
                  => /\ Len(result.built) = 1
                     /\ result.built[1].via = "StubObject"
                     /\ result.built[1].class = Some("StubObject")
                     /\ \A k \in DOMAIN result.events :
                            result.events[k][1] = "call"
                                => result.events[k][2] \notin {"_build", "_create"}

\* stub() on a factory with no target type, whose class Meta says
\* abstract = False and strategy = stub
C8_Witness ==
    /\ IsGenerate
    /\ result.strategy = STUB_STRATEGY
    /\ ModelOf(result.f) = None
    /\ dict_has(registry[result.f].statement, "Meta")
    /\ dict_get(registry[result.f].statement, "Meta").abstract = FALSE
    /\ result.error = "FactoryError"

\* stub() on a factory with a target type returned a container
C8_StubbedWitness ==
    /\ IsGenerate
    /\ result.strategy = STUB_STRATEGY
    /\ ModelOf(result.f) # None
    /\ result.error = ""
    /\ result.built # <<>>

(***************************************************************************)
(* SpecMeta: class statements with every kind of class Meta, each on any   *)
(* factory defined before.                                                 *)
(***************************************************************************)
\* factories defined besides BaseFactory and Factory in SpecMeta
MaxMetaDefs == 2

\* a value for each option, other than its default
MetaValues ==
    [model |-> {Some("StandardModel"), Some("StandardSon"), None},
     abstract |-> {TRUE, FALSE},
     strategy |-> {BUILD_STRATEGY, STUB_STRATEGY},
     inline_args |-> {<<"foo">>},
     exclude |-> {<<"bar">>},
     rename |-> {<< <<"bar", "extra">> >>},
     introspector_class |-> {Some("ModelIntrospector")},
     default_auto_fields |-> {TRUE},
     include_auto_fields |-> {<<"foo">>},
     exclude_auto_fields |-> {<<"foo">>}]

\* the class Meta of the class statements: one option set, a target type with
\* an abstract flag, and some of several options
MetaBlocks ==
    UNION {{(n :> v) : v \in MetaValues[n]} : n \in DOMAIN MetaValues}
    \cup {[model |-> m, abstract |-> a] : m \in MetaValues.model, a \in BOOLEAN}
    \cup {[model |-> Some("StandardModel"), abstract |-> TRUE,
           strategy |-> BUILD_STRATEGY, exclude |-> <<"bar">>,
           introspector_class |-> Some("ModelIntrospector"),
           include_auto_fields |-> <<"foo">>],
          [_private |-> TRUE, strategy |-> STUB_STRATEGY],
          [modle |-> Some("StandardModel")],
          [modle |-> Some("StandardModel"), bogus |-> TRUE, _private |-> TRUE,
           strategy |-> BUILD_STRATEGY]}

\* the bodies of the class statements: with a class Meta or without
MetaBodies == {<<>>} \cup {<< <<"Meta", m>> >> : m \in MetaBlocks}

MetaNames == <<"FirstFactory", "SecondFactory", "ThirdFactory", "FourthFactory">>

MetaDefine ==
    \E base \in Factories, attrs \in MetaBodies :
        /\ Cardinality(UserFactories) < MaxMetaDefs
        /\ Cardinality(UserFactories) < Len(MetaNames)
        /\ DefineClass(MetaNames[Cardinality(UserFactories) + 1], base, attrs)

MetaNext == MetaDefine

SpecMeta == Init /\ [][MetaNext]_vars

(***************************************************************************)
(* Properties of the options, checked under SpecMeta.                      *)
(***************************************************************************)
\* the class Meta of the class statement of factory f, or None
StatedMeta(f) ==
    IF dict_has(registry[f].statement, "Meta")
    THEN Some(dict_get(registry[f].statement, "Meta")) ELSE None

\* the class Meta of factory f sets the option `name`
IsStated(f, name) == StatedMeta(f) # None /\ name \in DOMAIN StatedMeta(f)[1]

\* C9: a factory whose target type resolves to None is abstract, even if its
\* class Meta says abstract = False.
C9_NoModelIsAbstract ==
    \A f \in Factories : ModelOf(f) = None => registry[f]._meta.abstract

\* a factory whose class Meta says abstract = False and whose target type
\* resolves to None
C9_Witness ==
    \E f \in UserFactories :
        /\ IsStated(f, "abstract")
        /\ StatedMeta(f)[1].abstract = FALSE
        /\ ModelOf(f) = None

\* the options that no factory inherits
NonInheritable == {"abstract", "include_auto_fields", "exclude_auto_fields"}

\* the value of the option by the rule: the one its class Meta gives, else
\* for an inheritable option the one resolved for the base, else the default
ValueByRule(f, name) ==
    IF IsStated(f, name) THEN StatedMeta(f)[1][name]
    ELSE IF name \notin NonInheritable THEN registry[BaseOf(f)]._meta[name]
    ELSE OptionNamed(name).value

\* C10 as stated: every option of every factory has the value of the rule.
C10_ResolvedByRule ==
    \A f \in UserFactories :
        \A name \in OptionNames : registry[f]._meta[name] = ValueByRule(f, name)

\* C10: every option of every factory has the value of the rule (its class
\* Meta's, else for an inheritable option the base's resolved value, else the
\* default; abstract, include_auto_fields and exclude_auto_fields never the
\* base's), except that abstract is true whenever the target type resolves to
\* None.
C10_ResolvedByRuleOrForced ==
    \A f \in UserFactories :
        \A name \in OptionNames :
            registry[f]._meta[name]
                = IF name = "abstract" /\ ModelOf(f) = None THEN TRUE
                  ELSE ValueByRule(f, name)

\* a factory with no class Meta, derived from an abstract factory whose class
\* Meta gives a target type, a strategy and include_auto_fields: it has the
\* target type and the strategy of its base, and is not abstract
C10_Witness ==
    \E f \in UserFactories :
        /\ BaseOf(f) \in UserFactories
        /\ StatedMeta(f) = None
        /\ registry[BaseOf(f)]._meta.abstract
        /\ ModelOf(BaseOf(f)) # None
        /\ ModelOf(f) = ModelOf(BaseOf(f))
        /\ registry[f]._meta.strategy = BUILD_STRATEGY
        /\ registry[BaseOf(f)]._meta.include_auto_fields # <<>>
        /\ registry[f]._meta.include_auto_fields = <<>>
        /\ ~registry[f]._meta.abstract

\* the configuration fields
RecognizedFields ==
    {"model", "abstract", "strategy", "inline_args", "exclude", "rename",
     "introspector_class", "default_auto_fields", "include_auto_fields",
     "exclude_auto_fields"}

\* the attributes of the class Meta of the last class statement that are
\* neither private nor configuration fields
Unrecognized ==
    IF dict_has(result.statement, "Meta")
    THEN {k \in DOMAIN dict_get(result.statement, "Meta") :
              k \notin RecognizedFields /\ ~startswith_underscore(k)}
    ELSE {}

\* C11: a class statement raises the TypeError of the unknown Meta attributes
\* exactly when its class Meta has an attribute that is neither private nor a
\* configuration field; the error names the class and those attributes,
\* sorted.
C11_UnknownMetaAttributeRejected ==
    result.op = "class"
        => /\ (result.error = "TypeError") <=> (Unrecognized # {})
           /\ result.error = "TypeError"
                  => /\ result.blame = result.f
                     /\ result.names = sorted(Unrecognized)
                     /\ result.f \notin DOMAIN registry

\* a class Meta with two unknown attributes, a private one and a
\* configuration field was rejected
C11_Witness ==
    /\ result.op = "class"
    /\ result.error = "TypeError"
    /\ result.names = <<"bogus", "modle">>
    /\ "_private" \in DOMAIN dict_get(result.statement, "Meta")
    /\ "strategy" \in DOMAIN dict_get(result.statement, "Meta")

\* a class Meta with a private attribute and a configuration field was
\* accepted
C11_AcceptedWitness ==
    /\ result.op = "class"
    /\ result.error = ""
    /\ dict_has(result.statement, "Meta")
    /\ "_private" \in DOMAIN dict_get(result.statement, "Meta")
    /\ result.f \in DOMAIN registry

(***************************************************************************)
(* SpecDecl: chains of factories for StandardSon, each derived from the    *)
(* one before, with declarations in their bodies and auto fields asked for *)
(* in their class Meta.                                                    *)
(***************************************************************************)
\* the class Meta of the factories derived from Factory
DeclRootMetas ==
    {[model |-> Some("StandardSon"), abstract |-> TRUE, introspector_class |-> Some(i)] :
         i \in {"ModelIntrospector", "RogueIntrospector"}}

\* what the class Meta of the other factories says of auto fields
DeclAutoMetas ==
    {<<>>,
     [include_auto_fields |-> <<"foo">>],
     [include_auto_fields |-> <<"son">>],
     [exclude_auto_fields |-> <<"foo">>],
     [exclude_auto_fields |-> <<"son">>],
     [include_auto_fields |-> <<"foo">>, exclude_auto_fields |-> <<"son">>],
     [default_auto_fields |-> TRUE, exclude_auto_fields |-> <<"foo">>],
     [default_auto_fields |-> TRUE]}

\* the declarations of a class body
DeclAttrs == {<<>>, << <<"foo", Plain(PyInt(1))>> >>}

\* the class bodies of the factories derived from Factory
DeclRootBodies ==
    {<< <<"Meta", m>> >> \o attrs :
         m \in DeclRootMetas, attrs \in {<<>>, << <<"foo", Sequence>> >>}}

\* the class bodies of the factories not derived from Factory
DeclBodies ==
    {(IF auto = <<>> /\ ~abstract THEN <<>>
      ELSE << <<"Meta", IF abstract THEN auto @@ [abstract |-> TRUE] ELSE auto>> >>)
         \o attrs :
         auto \in DeclAutoMetas, abstract \in BOOLEAN, attrs \in DeclAttrs}

\* a class statement that derives from the factory defined last
DeclDefine ==
    \E attrs \in (IF UserFactories = {} THEN DeclRootBodies ELSE DeclBodies) :
        /\ Cardinality(UserFactories) < Len(MetaNames)
        /\ DefineClass(MetaNames[Cardinality(UserFactories) + 1],
                       IF UserFactories = {} THEN "Factory"
                       ELSE MetaNames[Cardinality(UserFactories)],
                       attrs)

DeclNext == DeclDefine

SpecDecl == Init /\ [][DeclNext]_vars

(***************************************************************************)
(* Properties of the declarations, checked under SpecDecl.                 *)
(***************************************************************************)
\* the names declared in class bodies or found on models
DeclNames == {"foo", "son", "afile", "bar", "extra"}

\* the body of the class statement of factory c declares `name`
DeclaredIn(c, name) ==
    /\ c \in UserFactories
    /\ name \notin {"Meta", "Params"}
    /\ dict_has(registry[c].statement, name)
    /\ dict_get(registry[c].statement, name).kind \notin {"classmethod", "staticmethod"}

\* the nearest of factory c and its ancestors that declares `name`, or None
RECURSIVE NearestDeclaring(_, _)
NearestDeclaring(c, name) ==
    IF c \notin UserFactories THEN None
    ELSE IF DeclaredIn(c, name) THEN Some(c)
    ELSE NearestDeclaring(BaseOf(c), name)

\* the base declarations of factory f
BaseDeclarations(f) == registry[f]._meta.base_declarations

\* C12: the base declarations of a factory hold, for every name declared in
\* the body of the factory or of an ancestor, the declaration of the nearest
\* of them that declares it: the factory's own if it declares the name, else
\* the nearest ancestor's.
C12_NearestDeclarationWins ==
    \A f \in UserFactories :
        \A name \in DeclNames :
            NearestDeclaring(f, name) # None
                => /\ dict_has(BaseDeclarations(f), name)
                   /\ dict_get(BaseDeclarations(f), name)
                          = dict_get(registry[NearestDeclaring(f, name)[1]].statement, name)

\* a factory that declares a name its base declares otherwise, derived by a
\* factory that does not declare it
C12_Witness ==
    \E f \in UserFactories :
        /\ BaseOf(f) \in UserFactories
        /\ BaseOf(BaseOf(f)) \in UserFactories
        /\ DeclaredIn(BaseOf(BaseOf(f)), "foo")
        /\ DeclaredIn(BaseOf(f), "foo")
        /\ dict_get(registry[BaseOf(f)].statement, "foo")
               # dict_get(registry[BaseOf(BaseOf(f))].statement, "foo")
        /\ ~DeclaredIn(f, "foo")
        /\ dict_get(BaseDeclarations(f), "foo")
               = dict_get(registry[BaseOf(f)].statement, "foo")

\* what the class Meta in the class body `statement` says for the option
\* `name`, or `default`
Stated(statement, name, default) ==
    IF dict_has(statement, "Meta") /\ name \in DOMAIN dict_get(statement, "Meta")
    THEN dict_get(statement, "Meta")[name]
    ELSE default

\* the inclusions and exclusions in the class Meta of factory c
Inclusions(c) ==
    IF c \in UserFactories
    THEN Range(Stated(registry[c].statement, "include_auto_fields", <<>>)) ELSE {}
Exclusions(c) ==
    IF c \in UserFactories
    THEN Range(Stated(registry[c].statement, "exclude_auto_fields", <<>>)) ELSE {}

\* factory c and its ancestors
RECURSIVE ChainOf(_)
ChainOf(c) == IF c \notin UserFactories THEN {} ELSE {c} \cup ChainOf(BaseOf(c))

\* the inclusions and exclusions of factory c and its ancestors applied to
\* the names S, one factory after the other from the furthest to c
RECURSIVE AppliedInTurn(_, _)
AppliedInTurn(c, S) ==
    IF c \notin UserFactories THEN S
    ELSE (AppliedInTurn(BaseOf(c), S) \cup Inclusions(c)) \ Exclusions(c)

\* of the last class statement: its inclusions and exclusions, the names its
\* body declares, and the default set of the introspector if enabled
OwnInclusions == Range(Stated(result.statement, "include_auto_fields", <<>>))
OwnExclusions == Range(Stated(result.statement, "exclude_auto_fields", <<>>))
OwnDeclared ==
    {n \in DeclNames :
         dict_has(result.statement, n)
             /\ dict_get(result.statement, n).kind \notin {"classmethod", "staticmethod"}}
DefaultSet ==
    IF Stated(result.statement, "default_auto_fields",
              registry[result.base]._meta.default_auto_fields)
    THEN Range(ModelFields[Stated(result.statement, "model",
                                  registry[result.base]._meta.model)[1]])
    ELSE {}

\* the last class statement had auto fields derived
DerivationRan == result.op = "class" /\ result.field_names # None

\* C13 as stated: the candidate names are the default set with all the
\* inclusions of the chain, less all the exclusions of the chain, less the
\* names declared in the chain.
C13_AllInclusionsLessAllExclusions ==
    DerivationRan
        => result.field_names[1]
               = ((DefaultSet \cup OwnInclusions
                       \cup UNION {Inclusions(c) : c \in ChainOf(result.base)})
                    \ (OwnExclusions
                           \cup UNION {Exclusions(c) : c \in ChainOf(result.base)}))
                 \ (OwnDeclared
                        \cup {n \in DeclNames : NearestDeclaring(result.base, n) # None})

\* C13: the candidate names are the default set (when enabled) to which the
\* inclusions of each ancestor are added and from which its exclusions are
\* removed, one ancestor after the other from the furthest to the nearest,
\* then with the inclusions of the definition, less its exclusions and less
\* every name already in its base declarations (declared in its body, or
\* inherited from its base: declared, or auto-derived for a concrete
\* ancestor).
C13_InclusionsAndExclusionsInTurn ==
    DerivationRan
        => result.field_names[1]
               = (AppliedInTurn(result.base, DefaultSet) \cup OwnInclusions)
                 \ (OwnExclusions \cup OwnDeclared
                        \cup dict_keys(BaseDeclarations(result.base)))

\* auto fields were derived for a factory that includes a name which an
\* ancestor excludes, and the name is a candidate
C13_Witness ==
    /\ DerivationRan
    /\ result.error = ""
    /\ \E n \in OwnInclusions :
           /\ n \in result.field_names[1]
           /\ \E c \in ChainOf(result.base) : n \in Exclusions(c)

\* whether the name n is wanted after the inclusions and exclusions of
\* factory c and its ancestors: the nearest of them that names n decides, an
\* exclusion before an inclusion of the same definition; `dflt` if none does
RECURSIVE NearestMention(_, _, _)
NearestMention(c, n, dflt) ==
    IF c \notin UserFactories THEN dflt
    ELSE IF n \in Exclusions(c) THEN FALSE
    ELSE IF n \in Inclusions(c) THEN TRUE
    ELSE NearestMention(BaseOf(c), n, dflt)

\* every ancestor of the last class statement is abstract
AbstractAncestors ==
    \A c \in ChainOf(result.base) : registry[c]._meta.abstract

\* the fields of the model of the last class statement
OwnModelFields ==
    Range(ModelFields[Stated(result.statement, "model",
                             registry[result.base]._meta.model)[1]])

C14_ReAddedWitness ==
    /\ DerivationRan
    /\ AbstractAncestors
    /\ result.error = ""
    /\ \E n \in OwnInclusions :
           /\ \E c \in ChainOf(result.base) : n \in Exclusions(c)
           /\ dict_has(BaseDeclarations(result.f), n)
           /\ dict_get(BaseDeclarations(result.f), n).kind = "auto"

\* a definition has an auto-derived declaration for a name that only an
\* abstract ancestor includes, and none for a default name that only an
\* abstract ancestor excludes
C14_KeptWitness ==
    /\ DerivationRan
    /\ AbstractAncestors
    /\ result.error = ""
    /\ \/ \E n \in DeclNames \ (OwnInclusions \cup DefaultSet) :
              /\ \E c \in ChainOf(result.base) : n \in Inclusions(c)
              /\ dict_has(BaseDeclarations(result.f), n)
              /\ dict_get(BaseDeclarations(result.f), n).kind = "auto"
       \/ \E n \in DefaultSet \ OwnExclusions :
              /\ \E c \in ChainOf(result.base) : n \in Exclusions(c)
              /\ ~dict_has(BaseDeclarations(result.f), n)

\* C25: a declaration auto-derived for an ancestor (a concrete one: none is
\* derived for an abstract factory) is inherited as an explicit one is.
\* Every descendant has a declaration for the name, and the auto-derived one
\* unless the name is declared in a class body of its chain, also when the
\* descendant or a factory in between excludes the name.  A name that the
\* nearest of the factory and its ancestors to mention it excludes, and for
\* which the base has no declaration and the body of the factory none, has
\* no declaration.
C25_DerivedForConcreteAncestorStays ==
    \A f \in UserFactories :
        \A n \in DeclNames :
            /\ \A c \in ChainOf(BaseOf(f)) :
                   (/\ dict_has(BaseDeclarations(c), n)
                    /\ dict_get(BaseDeclarations(c), n).kind = "auto")
                       => /\ dict_has(BaseDeclarations(f), n)
                          /\ NearestDeclaring(f, n) = None
                                 => dict_get(BaseDeclarations(f), n)
                                        = dict_get(BaseDeclarations(c), n)
            /\ (/\ \E c \in ChainOf(f) : n \in Exclusions(c)
                /\ ~NearestMention(f, n, FALSE)
                /\ ~dict_has(BaseDeclarations(BaseOf(f)), n)
                /\ ~DeclaredIn(f, n))
                   => ~dict_has(BaseDeclarations(f), n)

\* auto fields were derived for a definition that excludes a name for which
\* its concrete base has an auto-derived declaration, and the definition has
\* that declaration; it has none for another name, which an ancestor excludes
C25_Witness ==
    /\ DerivationRan
    /\ result.error = ""
    /\ ~registry[result.base]._meta.abstract
    /\ \E n \in OwnExclusions :
           /\ dict_has(BaseDeclarations(result.base), n)
           /\ dict_get(BaseDeclarations(result.base), n).kind = "auto"
           /\ dict_get(BaseDeclarations(result.f), n)
                  = dict_get(BaseDeclarations(result.base), n)
    /\ \E m \in OwnModelFields :
           /\ \E c \in ChainOf(result.base) : m \in Exclusions(c)
           /\ ~dict_has(BaseDeclarations(result.f), m)

\* the declarations of `name` in the bodies of factory c and its ancestors
ExplicitDeclarations(c, name) ==
    {dict_get(registry[d].statement, name) : d \in {e \in ChainOf(c) : DeclaredIn(e, name)}}

\* the names declared in the body of the last class statement or of an
\* ancestor of it
ExplicitNames ==
    OwnDeclared \cup {n \in DeclNames : NearestDeclaring(result.base, n) # None}

\* the introspector of the last class statement
OwnIntrospector ==
    introspector_for(Stated(result.statement, "introspector_class",
                            registry[result.base]._meta.introspector_class))

\* C15: an auto-derived declaration never replaces an explicit one.  For
\* every name declared in the body of a factory or of an ancestor, the base
\* declarations of the factory hold a declaration written in one of these
\* bodies, never an auto-derived one; no such name is among the names the
\* introspector is asked for; and when the introspector returns a
\* declaration for such a name all the same, the class statement fails with
\* a ValueError and no factory is registered.
C15_ExplicitNeverReplaced ==
    /\ \A f \in UserFactories :
           \A n \in DeclNames :
               NearestDeclaring(f, n) # None
                   => /\ dict_has(BaseDeclarations(f), n)
                      /\ dict_get(BaseDeclarations(f), n).kind # "auto"
                      /\ dict_get(BaseDeclarations(f), n) \in ExplicitDeclarations(f, n)
    /\ DerivationRan
           => /\ result.field_names[1] \cap ExplicitNames = {}
              /\ (OwnIntrospector = "RogueIntrospector" /\ RogueField \in ExplicitNames)
                     => /\ result.error = "ValueError"
                        /\ result.f \notin DOMAIN registry

\* a factory that includes in its auto fields a name which its abstract base
\* declares has the declaration of its base and an auto-derived declaration
\* for another name
C15_Witness ==
    /\ DerivationRan
    /\ result.error = ""
    /\ \E n \in OwnInclusions :
           /\ NearestDeclaring(result.base, n) # None
           /\ n \notin OwnDeclared
           /\ dict_get(BaseDeclarations(result.f), n)
                  = dict_get(BaseDeclarations(result.base), n)
           /\ dict_get(BaseDeclarations(result.f), n).kind # "auto"
    /\ \E m \in DeclNames :
           /\ dict_has(BaseDeclarations(result.f), m)
           /\ dict_get(BaseDeclarations(result.f), m).kind = "auto"

\* the introspector returned a declaration for a name declared in a class
\* body, and the class statement failed
C15_RejectedWitness ==
    /\ DerivationRan
    /\ OwnIntrospector = "RogueIntrospector"
    /\ RogueField \in ExplicitNames
    /\ result.error = "ValueError"

(***************************************************************************)
(* SpecParams: a factory whose class Params holds traits that override one *)
(* another, declared in any order.                                         *)
(***************************************************************************)
\* the names of the traits
ParamNames == <<"A", "B", "C", "D">>
\* overrides of a trait by a trait, in all
MaxOverrides == 4

\* the first n names
FirstParams(n) == {ParamNames[i] : i \in 1..n}

\* the orders in which the first n names can be declared
DeclarationOrders(n) ==
    {o \in [1..n -> FirstParams(n)] : \A i, j \in 1..n : o[i] = o[j] => i = j}

\* the sets of at most MaxOverrides overrides <<a, b>>, trait a overriding
\* trait b, among the first n names
OverrideSets(n) ==
    {E \in SUBSET (FirstParams(n) \X FirstParams(n)) : Cardinality(E) <= MaxOverrides}

\* the place of name in the order o
PlaceIn(o, name) == CHOOSE i \in DOMAIN o : o[i] = name

\* vars(Params) for the first n names, declared in the order o with the
\* overrides E: the attributes by name, each with its creation counter
ParamsBody(n, o, E) ==
    [i \in 1..n |->
        <<ParamNames[i],
          Trait(PlaceIn(o, ParamNames[i]), {e[2] : e \in {d \in E : d[1] = ParamNames[i]}})>>]

\* class TraitFactory(Factory) with a class Params, the one class statement
ParamsDefine ==
    /\ result = NoResult
    /\ \E n \in 2..Len(ParamNames) :
        \E o \in DeclarationOrders(n), E \in OverrideSets(n) :
            /\ DefineClass("TraitFactory", "Factory",
                           << <<"Meta", [model |-> Some("StandardModel")]>>,
                              <<"Params", ParamsBody(n, o, E)>> >>)

\* the diamond: C overrides A and B, which both override D
Diamond == {<<"C", "A">>, <<"C", "B">>, <<"A", "D">>, <<"B", "D">>}

\* class DiamondFactory(Factory) with the diamond as its class Params,
\* declared in any order
ParamsDiamond ==
    /\ result = NoResult
    /\ \E o \in DeclarationOrders(4) :
           DefineClass("DiamondFactory", "Factory",
                       << <<"Meta", [model |-> Some("StandardModel")]>>,
                          <<"Params", ParamsBody(4, o, Diamond)>> >>)

\* class DerivedFactory(DiamondFactory) with a class Params that declares one
\* trait, which overrides one trait
ParamsDerive ==
    /\ "DiamondFactory" \in UserFactories
    /\ \E a \in Range(ParamNames), b \in Range(ParamNames) :
           DefineClass("DerivedFactory", "DiamondFactory",
                       << <<"Params", << <<a, Trait(Len(ParamNames) + 1, {b})>> >> >> >>)

ParamsNext ==
    \/ ParamsDefine
    \/ ParamsDiamond
    \/ ParamsDerive

SpecParams == Init /\ [][ParamsNext]_vars

(***************************************************************************)
(* Properties of the parameters, checked under SpecParams.                 *)
(***************************************************************************)
\* the class Params of the last class statement
StatedParams ==
    IF dict_has(result.statement, "Params") THEN dict_get(result.statement, "Params")
    ELSE <<>>

\* the parameters the last class statement has: its own and those of its base
AllParams ==
    IF result.op # "class" THEN {}
    ELSE dict_keys(StatedParams) \cup dict_keys(registry[result.base]._meta.parameters)

\* the parameter named a of the last class statement
ParamNamed(a) ==
    IF dict_has(StatedParams, a) THEN dict_get(StatedParams, a)
    ELSE dict_get(registry[result.base]._meta.parameters, a)

\* parameter a depends on parameter b: it overrides b
DependsOn(a, b) == a \in AllParams /\ b \in AllParams /\ b \in ParamNamed(a).overrides

\* the parameters reached from those of S by at most k dependencies
RECURSIVE ReachedFrom(_, _)
ReachedFrom(S, k) ==
    IF k = 0 THEN S
    ELSE ReachedFrom(S \cup {b \in AllParams : \E a \in S : DependsOn(a, b)}, k - 1)

\* the parameters that a depends on, directly or not
Closure(a) ==
    ReachedFrom({b \in AllParams : DependsOn(a, b)}, Cardinality(AllParams))

\* the place of the parameter a in the order of expansion
ExpandedAt(a) == CHOOSE i \in DOMAIN result.expanded : result.expanded[i] = a

\* C16 as stated: when parameters A and B depend on one another, the class
\* statement fails with a cyclic-definition error that names both.
C16_BothNamed ==
    \A a, b \in AllParams :
        (a # b /\ DependsOn(a, b) /\ DependsOn(b, a))
            => /\ result.error = "CyclicDefinitionError"
               /\ {a, b} \subseteq Range(result.names)

\* C17 as stated: the class statement fails with a cyclic-definition error
\* exactly when a parameter depends on itself, directly or not.
C17_RejectedIffCyclic ==
    result.op = "class"
        => (result.error = "CyclicDefinitionError"
                <=> \E a \in AllParams : a \in Closure(a))

\* C18 as stated: every parameter is expanded after the parameters it
\* depends on, directly or not.
C18_ExpandedAfterDependencies ==
    (result.op = "class" /\ result.error = "")
        => \A a \in AllParams :
               \A b \in Closure(a) : ExpandedAt(b) < ExpandedAt(a)

\* what _check_parameter_dependencies does find: a cyclic-definition error is
\* raised only when a parameter depends on itself, directly or not; it is
\* raised whenever a parameter overrides itself or two parameters override
\* one another; and it names only parameters that depend on themselves
CyclesOfTwoRejected ==
    result.op = "class"
        => /\ result.error = "CyclicDefinitionError"
                  => /\ result.names # <<>>
                     /\ \A a \in Range(result.names) : a \in AllParams /\ a \in Closure(a)
           /\ (\E a, b \in AllParams : DependsOn(a, b) /\ DependsOn(b, a))
                  => result.error = "CyclicDefinitionError"

\* the parameters are expanded in the order of their creation counters
ExpandedInCreationOrder ==
    (result.op = "class" /\ result.error = "")
        => /\ Range(result.expanded) = AllParams
           /\ \A a, b \in AllParams :
                  ParamNamed(a).creation_counter < ParamNamed(b).creation_counter
                      => ExpandedAt(a) < ExpandedAt(b)

(***************************************************************************)
(* Properties of the dispatch on the strategy, checked under SpecGen.      *)
(***************************************************************************)
\* the calls of instantiation hooks among the events of the last call
HookCalls == SelectSeq(result.events, LAMBDA e : e[1] = "call")

\* the strategy that the last call is to use: the one of build(), create()
\* or stub(), and for a direct call the one of the class Meta
DueStrategy ==
    IF result.op = "call" THEN registry[result.f]._meta.strategy ELSE result.strategy

\* the object `made` was given the attributes declared for the factory of the
\* last call and the overrides of the caller, these with the caller's values
GivenDeclaredAndOverrides(made) ==
    /\ made.args = <<>>
    /\ dict_keys(made.kwargs)
           = dict_keys(BaseDeclarations(result.f)) \cup dict_keys(result.params)
    /\ \A k \in dict_keys(result.params) :
           dict_get(made.kwargs, k) = dict_get(result.params, k)

\* C20: a call that returns an object made it by the hook of its strategy:
\* build calls _build alone and create calls _create alone, with the model
\* of the factory and the arguments prepared; stub calls neither and returns
\* a StubObject that holds the keyword arguments.  build(), create() and
\* stub() do so whatever the strategy of the class Meta is; a direct call of
\* the factory uses the strategy of the class Meta.
C20_DispatchOnStrategy ==
    (result.op \in {"generate", "call"} /\ result.error = "")
        => /\ Len(result.built) = 1
           /\ GivenDeclaredAndOverrides(result.built[1])
           /\ DueStrategy = BUILD_STRATEGY
                  => /\ HookCalls = << <<"call", "_build">> >>
                     /\ result.built[1].via = "_build"
                     /\ result.built[1].class = registry[result.f]._meta.model
           /\ DueStrategy = CREATE_STRATEGY
                  => /\ HookCalls = << <<"call", "_create">> >>
                     /\ result.built[1].via = "_create"
                     /\ result.built[1].class = registry[result.f]._meta.model
           /\ DueStrategy = STUB_STRATEGY
                  => /\ \A k \in DOMAIN HookCalls :
                            HookCalls[k][2] \notin {"_build", "_create"}
                     /\ result.built[1].via = "StubObject"
                     /\ result.built[1].class = Some("StubObject")

\* stub() of a factory whose class Meta gives another strategy returned a
\* StubObject that holds an attribute
C20_Witness ==
    /\ result.op = "generate"
    /\ result.error = ""
    /\ result.strategy = STUB_STRATEGY
    /\ registry[result.f]._meta.strategy # STUB_STRATEGY
    /\ result.built[1].via = "StubObject"
    /\ result.built[1].kwargs # <<>>

\* a direct call of a factory whose class Meta gives the build strategy
\* returned an object made by _build
C20_CallWitness ==
    /\ result.op = "call"
    /\ result.error = ""
    /\ registry[result.f]._meta.strategy = BUILD_STRATEGY
    /\ result.built[1].via = "_build"

(***************************************************************************)
(* Properties of an unrecognized strategy, checked under SpecGen.          *)
(***************************************************************************)
\* the class Meta of the class statement that ran last (None: it has none)
LastMeta ==
    IF dict_has(result.statement, "Meta") THEN Some(dict_get(result.statement, "Meta"))
    ELSE None

\* the class statement that ran last gives the strategy s in its class Meta
StatesStrategy(s) ==
    /\ result.op = "class"
    /\ LastMeta # None
    /\ "strategy" \in DOMAIN LastMeta[1]
    /\ LastMeta[1].strategy = s

\* C21, as stated: a class statement whose class Meta gives a strategy other
\* than build, create and stub raises an error, and no registered factory
\* that was defined with a strategy of its own holds such a strategy.
C21_UnknownStrategyRejectedAtDefinition ==
    /\ \A s \in GenStrategies \ Strategies : StatesStrategy(s) => result.error # ""
    /\ \A f \in UserFactories :
           LET meta == dict_get(registry[f].statement, "Meta")
           IN  (dict_has(registry[f].statement, "Meta") /\ "strategy" \in DOMAIN meta
                    /\ registry[f]._meta.strategy = meta.strategy)
                   => registry[f]._meta.strategy \in Strategies

\* C21, amended: a class statement whose class Meta gives an unrecognized
\* strategy succeeds and the factory holds that strategy.  The strategy is
\* looked at only when the factory is called directly: the call raises
\* UnknownStrategy, resolves nothing and makes nothing, exactly when the
\* strategy the factory holds then is unrecognized.  build(), create(),
\* stub() and their batch variants never raise it.
C21_UnknownStrategyRejectedWhenCalled ==
    /\ \A s \in GenStrategies \ Strategies :
           StatesStrategy(s)
               => /\ result.error = ""
                  /\ result.f \in UserFactories
                  /\ registry[result.f]._meta.strategy = s
    /\ result.op = "call"
           => /\ (result.error = "UnknownStrategy")
                     <=> (registry[result.f]._meta.strategy \notin Strategies)
              /\ result.error = "UnknownStrategy"
                     => result.built = <<>> /\ result.events = <<>>
    /\ result.op \in {"generate", "batch"} => result.error # "UnknownStrategy"

\* a factory defined with an unrecognized strategy, never given another, was
\* called directly and the call raised UnknownStrategy
C21_Witness ==
    /\ result.op = "call"
    /\ result.error = "UnknownStrategy"
    /\ LET meta == dict_get(registry[result.f].statement, "Meta")
       IN  /\ dict_has(registry[result.f].statement, "Meta")
           /\ "strategy" \in DOMAIN meta
           /\ meta.strategy \notin Strategies
           /\ registry[result.f]._meta.strategy = meta.strategy

\* build() of a factory that holds an unrecognized strategy made an object
C21_BuiltWitness ==
    /\ result.op = "generate"
    /\ result.strategy = BUILD_STRATEGY
    /\ result.error = ""
    /\ registry[result.f]._meta.strategy \notin Strategies
    /\ Len(result.built) = 1

\* the class Meta of factory f says whether f is abstract
StatesAbstract(f) ==
    /\ dict_has(registry[f].statement, "Meta")
    /\ "abstract" \in DOMAIN dict_get(registry[f].statement, "Meta")

\* C26: the abstract flag is not inherited.  A factory derived from an
\* abstract factory, whose class Meta does not say abstract (or which has no
\* class Meta) and which has a model, given in its class Meta or inherited
\* from the abstract factory, is not abstract, and build(), create() and
\* stub() on it make an object.
C26_AbstractNotInherited ==
    /\ \A f \in UserFactories :
           (/\ registry[BaseOf(f)]._meta.abstract
            /\ ~StatesAbstract(f)
            /\ Stated(registry[f].statement, "model",
                      registry[BaseOf(f)]._meta.model) # None)
               => /\ ~registry[f]._meta.abstract
                  /\ registry[f]._meta.model
                         = Stated(registry[f].statement, "model",
                                  registry[BaseOf(f)]._meta.model)
    /\ (/\ result.op = "generate"
        /\ registry[BaseOf(result.f)]._meta.abstract
        /\ ~StatesAbstract(result.f)
        /\ registry[result.f]._meta.model # None)
           => /\ result.error = ""
              /\ Len(result.built) = 1

\* a factory with no class Meta, derived from a factory whose class Meta says
\* abstract and gives the model, has built an object of that model
C26_Witness ==
    /\ result.op = "generate"
    /\ result.strategy = BUILD_STRATEGY
    /\ result.error = ""
    /\ ~dict_has(registry[result.f].statement, "Meta")
    /\ BaseOf(result.f) \in UserFactories
    /\ StatesAbstract(BaseOf(result.f))
    /\ registry[BaseOf(result.f)]._meta.abstract
    /\ Len(result.built) = 1
    /\ result.built[1].class = registry[BaseOf(result.f)]._meta.model
    /\ result.built[1].class # None

(***************************************************************************)
(* SpecArgs: a factory whose class Meta excludes, renames and inlines      *)
(* attributes, with a trait A and a declaration that may be SKIP, and      *)
(* which may have an _adjust_kwargs of its own; build, create and stub     *)
(* are called on it.                                                       *)
(***************************************************************************)
\* calls made in SpecArgs
MaxArgsCalls == 1

ArgsExcludes == {<<>>, <<"bar">>}
ArgsRenames ==
    {<<>>, << <<"foo", "bar">> >>, << <<"foo", "A">> >>, << <<"bar", "extra">> >>,
     << <<"foo", "bar">>, <<"bar", "extra">> >>,
     << <<"bar", "extra">>, <<"foo", "bar">> >>}
ArgsInlines == {<<>>, <<"foo">>, <<"bar">>, <<"bar", "foo">>}
\* the class bodies after the class Meta: foo and bar declared, bar maybe as
\* SKIP; a trait or none; an _adjust_kwargs that sets bar, or none
ArgsAttrs ==
    {<< <<"foo", Sequence>>, <<"bar", Plain(bar)>> >> \o params \o hook :
         bar \in {PyInt(1), SKIP},
         params \in {<<>>, << <<"Params", << <<"A", Trait(1, {})>> >> >> >>},
         hook \in {<<>>, << <<"_adjust_kwargs", adjusting(Some(<<"bar", PyInt(9)>>))>> >>}}
\* the overrides of the caller
ArgsParams == {<<>>, << <<"A", PyInt(1)>> >>}

\* class ArgsFactory(Factory), the one class statement
ArgsDefine ==
    /\ UserFactories = {}
    /\ \E exclude \in ArgsExcludes, rename \in ArgsRenames, inline_args \in ArgsInlines,
          attrs \in ArgsAttrs :
           DefineClass("ArgsFactory", "Factory",
                       << <<"Meta", [model |-> Some("StandardModel"), exclude |-> exclude,
                                     rename |-> rename, inline_args |-> inline_args]>> >>
                           \o attrs)

\* ArgsFactory.build(**params), .create(**params), .stub(**params)
ArgsGenerate ==
    /\ ncalls < MaxArgsCalls
    /\ \E f \in UserFactories, strategy \in Strategies, params \in ArgsParams :
           generate(f, strategy, params)

ArgsNext == ArgsDefine \/ ArgsGenerate

SpecArgs == Init /\ [][ArgsNext]_vars

(***************************************************************************)
(* Properties of prepare_arguments, checked under SpecArgs.                *)
(***************************************************************************)
\* the last call was build(), create() or stub() and it got as far as
\* prepare_arguments
ArgsPrepared ==
    /\ result.op = "generate"
    /\ \E i \in DOMAIN result.events : result.events[i][1] = "_adjust_kwargs"

\* the kwargs that _adjust_kwargs received in the last call
Received ==
    result.events[CHOOSE i \in DOMAIN result.events :
                      result.events[i][1] = "_adjust_kwargs"][2]

\* the options of the factory of the last call
ArgsMeta == registry[result.f]._meta

\* the names of attributes in SpecArgs
ArgsNames == {"foo", "bar", "A", "extra"}

\* the class body of the factory of the last call has an _adjust_kwargs
OwnHook == dict_has(registry[result.f].statement, "_adjust_kwargs")
\* what it sets
OwnHookSets == dict_get(registry[result.f].statement, "_adjust_kwargs").sets[1]

\* the kwargs as _adjust_kwargs returned them have the name k
Adjusted(k) == dict_has(Received, k) \/ (OwnHook /\ OwnHookSets[1] = k)
\* and its value there
AdjustedValue(k) ==
    IF OwnHook /\ OwnHookSets[1] = k THEN OwnHookSets[2] ELSE dict_get(Received, k)

\* the name k is hidden: excluded, or the name of a parameter
Hidden(k) == k \in Range(ArgsMeta.exclude) \/ k \in dict_keys(ArgsMeta.parameters)

\* the name k is left after the hidden names and the SKIP values are removed
Left(k) == Adjusted(k) /\ ~Hidden(k) /\ AdjustedValue(k) # SKIP

\* the names that the rename map renames, and the names it gives
RenameSources == {ArgsMeta.rename[i][1] : i \in DOMAIN ArgsMeta.rename}
RenameTargets == {ArgsMeta.rename[i][2] : i \in DOMAIN ArgsMeta.rename}
\* the name that is renamed to n
SourceOf(n) == CHOOSE k \in RenameSources : dict_get(ArgsMeta.rename, k) = n

\* the name n is due after the renaming, and the value due for it
Due(n) ==
    IF n \in RenameTargets THEN Left(SourceOf(n))
    ELSE n \notin RenameSources /\ Left(n)
DueValue(n) ==
    IF n \in RenameTargets THEN AdjustedValue(SourceOf(n)) ELSE AdjustedValue(n)

\* the object of the last call
Made == result.built[1]

\* _adjust_kwargs received every attribute declared and every override of
\* the caller, with the values resolved: the excluded ones, those named as a
\* parameter and the SKIP ones among them
ReceivedAll ==
    /\ dict_keys(Received)
           = dict_keys(BaseDeclarations(result.f)) \cup dict_keys(result.params)
    /\ \A k \in dict_keys(result.params) :
           dict_get(Received, k) = dict_get(result.params, k)
    /\ \A k \in dict_keys(BaseDeclarations(result.f)) \ dict_keys(result.params) :
           dict_get(BaseDeclarations(result.f), k).kind = "value"
               => dict_get(Received, k) = dict_get(BaseDeclarations(result.f), k).value

\* C19 as stated: _adjust_kwargs receives the full mapping, and the keyword
\* arguments given to the instantiation hold no excluded name and no name of
\* a parameter.
C19_NoHiddenNameInKwargs ==
    (ArgsPrepared /\ result.error = "")
        => /\ ReceivedAll
           /\ \A k \in dict_keys(Made.kwargs) : ~Hidden(k)

\* no entry of the rename map gives a name that another entry renames or
\* gives: the entries can be applied in any order, or at once
IndependentRenames ==
    \A i, j \in DOMAIN ArgsMeta.rename :
        i # j => /\ ArgsMeta.rename[i][2] # ArgsMeta.rename[j][1]
                 /\ ArgsMeta.rename[i][2] # ArgsMeta.rename[j][2]

\* C19: _adjust_kwargs receives the full mapping; of what it returns, the
\* excluded names, the names of parameters and the SKIP values are removed,
\* by the names as declared; then the rename map is applied, and it is a
\* KeyError if a name to rename was removed; then the inline arguments are
\* taken out by the names after renaming, and it is a KeyError if one is not
\* there.  The keyword arguments hold an excluded name or the name of a
\* parameter only if the rename map gave it, and a name that the rename map
\* does not give is there only if it was left by the filter, with the value
\* _adjust_kwargs returned.  (The names and values after the renaming are
\* stated for a rename map whose entries are independent of each other.)
C19_HiddenThenRenamedThenInlined ==
    ArgsPrepared
        => /\ ReceivedAll
           /\ result.error = ""
                  => \A n \in dict_keys(Made.kwargs) :
                         /\ Hidden(n) => n \in RenameTargets
                         /\ n \notin RenameTargets
                                => /\ Left(n)
                                   /\ dict_get(Made.kwargs, n) = AdjustedValue(n)
           /\ IndependentRenames
                  => /\ result.error = "KeyError"
                            <=> \/ \E k \in RenameSources : ~Left(k)
                                \/ \E n \in Range(ArgsMeta.inline_args) : ~Due(n)
                     /\ result.error = ""
                            => /\ result.strategy # STUB_STRATEGY
                                      => /\ Len(Made.args) = Len(ArgsMeta.inline_args)
                                         /\ \A i \in DOMAIN ArgsMeta.inline_args :
                                                Made.args[i]
                                                    = DueValue(ArgsMeta.inline_args[i])
                               /\ \A n \in ArgsNames :
                                      dict_has(Made.kwargs, n)
                                          <=> Due(n) /\ n \notin Range(ArgsMeta.inline_args)
                               /\ \A n \in dict_keys(Made.kwargs) :
                                      dict_get(Made.kwargs, n) = DueValue(n)

\* a call in which _adjust_kwargs received the excluded attribute bar and
\* an override named as the parameter A; the object made is not given A, and
\* is given as bar the attribute foo that is renamed to it
C19_Witness ==
    /\ ArgsPrepared
    /\ result.error = ""
    /\ "bar" \in Range(ArgsMeta.exclude)
    /\ dict_has(Received, "bar")
    /\ "A" \in dict_keys(ArgsMeta.parameters)
    /\ dict_has(Received, "A")
    /\ ~dict_has(Made.kwargs, "A")
    /\ ArgsMeta.rename = << <<"foo", "bar">> >>
    /\ ~dict_has(Made.kwargs, "foo")
    /\ dict_has(Made.kwargs, "bar")
    /\ dict_get(Made.kwargs, "bar") = dict_get(Received, "foo")

\* the keyword arguments hold an excluded name, given by the rename map
C19_RenamedToExcludedWitness ==
    /\ ArgsPrepared
    /\ result.error = ""
    /\ \E n \in dict_keys(Made.kwargs) : n \in Range(ArgsMeta.exclude)

\* the kwargs of the last call as they were after the renaming
Renamed ==
    result.events[CHOOSE i \in DOMAIN result.events :
                      result.events[i][1] = "_adjust_kwargs"][3]

\* C29 as stated: every entry of the rename map is applied: if a name to
\* rename is not left by the filter (not resolved, excluded, the name of a
\* parameter or SKIP), the call fails with a KeyError and makes nothing;
\* otherwise the kwargs after the renaming hold, for every entry, the value
\* of the old name under the new name, and the old name only if another
\* entry gives it.
C29_EveryRenameEntryApplied ==
    ArgsPrepared
        => IF \E k \in RenameSources : ~Left(k)
           THEN result.error = "KeyError" /\ result.built = <<>>
           ELSE \A i \in DOMAIN ArgsMeta.rename :
                    /\ dict_has(Renamed, ArgsMeta.rename[i][2])
                    /\ dict_get(Renamed, ArgsMeta.rename[i][2])
                           = AdjustedValue(ArgsMeta.rename[i][1])
                    /\ dict_has(Renamed, ArgsMeta.rename[i][1])
                           => ArgsMeta.rename[i][1] \in RenameTargets

\* the same, for a rename map whose entries are independent of each other
C29_IndependentEntriesApplied ==
    (ArgsPrepared /\ IndependentRenames)
        => IF \E k \in RenameSources : ~Left(k)
           THEN result.error = "KeyError" /\ result.built = <<>>
           ELSE \A i \in DOMAIN ArgsMeta.rename :
                    /\ dict_has(Renamed, ArgsMeta.rename[i][2])
                    /\ dict_get(Renamed, ArgsMeta.rename[i][2])
                           = AdjustedValue(ArgsMeta.rename[i][1])
                    /\ dict_has(Renamed, ArgsMeta.rename[i][1])
                           => ArgsMeta.rename[i][1] \in RenameTargets

\* a call with a rename map in which one entry renames the name that
\* another gives: both names to rename are left by the filter, the call
\* succeeds, and the kwargs hold nothing under the name the first entry gives
C29_ChainedWitness ==
    /\ ArgsPrepared
    /\ result.error = ""
    /\ ArgsMeta.rename = << <<"foo", "bar">>, <<"bar", "extra">> >>
    /\ Left("foo") /\ Left("bar")
    /\ ~dict_has(Renamed, "bar")
    /\ dict_get(Renamed, "extra") = AdjustedValue("foo")

\* a call with that rename map in which bar is excluded: a name to rename is
\* not left by the filter, and the call succeeds
C29_AbsentNoErrorWitness ==
    /\ ArgsPrepared
    /\ result.error = ""
    /\ ArgsMeta.rename = << <<"foo", "bar">>, <<"bar", "extra">> >>
    /\ "bar" \in Range(ArgsMeta.exclude)
    /\ ~Left("bar")

\* C30: the args that prepare_arguments returns are the values, in the kwargs
\* after the renaming, of the names of inline_args in the order of
\* inline_args; the kwargs it returns are the kwargs after the renaming
\* without those names, the others with their values and in their order.
\* (stub() is given the kwargs alone.)
C30_InlineArgsTakenInOrder ==
    (ArgsPrepared /\ result.error = "")
        => /\ result.strategy # STUB_STRATEGY
                  => Made.args = [i \in DOMAIN ArgsMeta.inline_args |->
                                     dict_get(Renamed, ArgsMeta.inline_args[i])]
           /\ result.strategy = STUB_STRATEGY => Made.args = <<>>
           /\ dict_keys(Made.kwargs) \cap Range(ArgsMeta.inline_args) = {}
           /\ Made.kwargs
                  = SelectSeq(Renamed,
                              LAMBDA item : item[1] \notin Range(ArgsMeta.inline_args))

\* a call of build() or create() with inline_args = (bar, foo), the reverse
\* of the order of declaration: the args are the two values in that order,
\* different from each other, and the kwargs hold another attribute
C30_Witness ==
    /\ ArgsPrepared
    /\ result.error = ""
    /\ result.strategy # STUB_STRATEGY
    /\ ArgsMeta.inline_args = <<"bar", "foo">>
    /\ Made.args = <<dict_get(Renamed, "bar"), dict_get(Renamed, "foo")>>
    /\ Made.args[1] # Made.args[2]
    /\ Made.kwargs # <<>>
    /\ dict_keys(Made.kwargs) \cap {"bar", "foo"} = {}

(***************************************************************************)
(* SpecLife: a family of factories with options, declarations of both      *)
(* phases and traits, and every call made on them while descendants are    *)
(* still being defined.                                                    *)
(***************************************************************************)
LifeClasses ==
    [LifeFactory |->
        [base |-> "Factory",
         attrs |-> << <<"Meta", [model |-> Some("StandardModel"),
                                 exclude |-> <<"bar">>,
                                 rename |-> << <<"foo", "extra">> >>]>>,
                      <<"foo", Sequence>>,
                      <<"bar", Plain(PyInt(1))>>,
                      <<"after", PostGeneration>>,
                      <<"Params", << <<"A", Trait(1, {"foo"})>> >> >> >>],
     LifeSonFactory |->
        [base |-> "LifeFactory",
         attrs |-> << <<"Meta", [model |-> Some("StandardSon"), exclude |-> <<>>,
                                 strategy |-> BUILD_STRATEGY]>>,
                      <<"foo", Plain(PyInt(2))>>,
                      <<"_setup_next_sequence", classmethod(5)>>,
                      <<"Params", << <<"B", Trait(2, {"bar"})>> >> >> >>],
     LifeStubFactory |->
        [base |-> "LifeFactory",
         attrs |-> << <<"Meta", [strategy |-> STUB_STRATEGY, rename |-> <<>>,
                                 inline_args |-> <<"bar">>]>>,
                      <<"bar", PostGeneration>>,
                      <<"baz", Sequence>> >>],
     LifeGrandSonFactory |->
        [base |-> "LifeSonFactory",
         attrs |-> << <<"after", Plain(PyInt(3))>>,
                      <<"Params", << <<"A", Trait(3, {"bar"})>> >> >> >>]]

\* the overrides given to the calls
LifeParams == {<<>>, << <<"A", PyInt(1)>> >>}

\* calls made in SpecLife
MaxLifeCalls == 2

LifeDefine ==
    \E n \in DOMAIN LifeClasses : DefineClass(n, LifeClasses[n].base, LifeClasses[n].attrs)

\* build, create, stub, their batch variants and the direct call
LifeGenerate ==
    /\ ncalls < MaxLifeCalls
    /\ \E f \in UserFactories, params \in LifeParams :
           \/ \E strategy \in Strategies : generate(f, strategy, params)
           \/ \E strategy \in Strategies : batch(f, strategy, MaxBatch, params)
           \/ call(f, params)

\* next_sequence and reset_sequence
LifeSequence ==
    /\ ncalls < MaxLifeCalls
    /\ \E f \in UserFactories :
           \/ next_sequence(f)
           \/ \E v \in ResetValues, force \in BOOLEAN : reset_sequence(f, v, force)

LifeNext == LifeDefine \/ LifeGenerate \/ LifeSequence

SpecLife == Init /\ [][LifeNext]_vars

(***************************************************************************)
(* Properties of a registered factory, checked under SpecLife.             *)
(***************************************************************************)
\* a class as it is but for the _counter of its options
WithoutCounter(class) == [class EXCEPT !._meta._counter = None]

\* what contribute_to_class computed for factory f
Resolved(reg, f) ==
    [options |-> [n \in OptionNames |-> reg[f]._meta[n]],
     base_declarations |-> reg[f]._meta.base_declarations,
     parameters |-> reg[f]._meta.parameters,
     pre_declarations |-> reg[f]._meta.pre_declarations,
     post_declarations |-> reg[f]._meta.post_declarations]

\* C22: once a factory is registered, no class statement for another
\* factory and no build, create, stub, batch, direct call, next_sequence or
\* reset_sequence, on it or on another factory, changes its options, its
\* base declarations, its parameters or its pre and post declarations; of the
\* whole class nothing but the _counter of its options ever changes.
C22_FrozenAfterRegistration ==
    [][\A f \in Factories :
           /\ f \in DOMAIN registry'
           /\ Resolved(registry', f) = Resolved(registry, f)
           /\ WithoutCounter(registry'[f]) = WithoutCounter(registry[f])]_vars

\* a factory with options, traits and declarations of both phases, which
\* has a descendant, has built an object from its counter after another call
C22_Witness ==
    /\ result.op = "generate"
    /\ result.error = ""
    /\ ncalls = MaxLifeCalls
    /\ \E d \in UserFactories : registry[d].base = Some(result.f)
    /\ registry[result.f]._meta._counter # None
    /\ registry[result.f]._meta.parameters # <<>>
    /\ registry[result.f]._meta.post_declarations # <<>>
    /\ registry[result.f]._meta.exclude # <<>>
====
